---- MODULE Spec2Model ----
(***************************************************************************)
(* State-machine model of the ai-alpha-scanner backend: the upsert store   *)
(* (services/project_service.py), the run ledger (collectors/base.py) and  *)
(* the periodic scheduler (scheduler.py, main.py).                         *)
(*                                                                         *)
(* Text values (names, slugs, URLs) are sequences of one-character         *)
(* strings, so that the string functions of the code are computed and not  *)
(* assumed.  A dictionary key that is missing is the value Absent, the     *)
(* Python value None is Null, the empty string is <<>>.  Numeric fields    *)
(* use AbsentN and NoneN.  Scores are kept in tenths (9.8 is 98).          *)
(***************************************************************************)
EXTENDS Integers, Sequences, FiniteSets, TLC

VARIABLES
    store,      \* committed rows of table projects, in insertion order
    sess,       \* rows as seen by the open session of the running batch
    spc,        \* "idle" or "batch": position of save_projects_from_collector
    bsource,    \* source argument of the running (or last) batch
    stats,      \* the stats dictionary of the running (or last) batch
    bno,        \* number of batches started so far
    committed_batches, \* the numbers of the batches whose commit succeeded
    log,        \* history: one entry per record handed to _save_single_project
    clock,      \* logical time, advanced by every record processed
    ledger,     \* committed rows of table collection_logs
    runs,       \* the invocations of BaseCollector.run(), in order of start
    is_running, \* TaskScheduler._is_running
    jobs,       \* the jobs held by the scheduler's job store, in order
    nsetup,     \* number of setup_jobs() calls
    ncalls,     \* number of start() and stop() calls made
    lastcall,   \* the last of start() and stop() that was called
    nmanual,    \* number of run-now requests made
    bodies,     \* executing invocations of job bodies, in order of start
    fired,      \* per job id: trigger firings so far
    started,    \* per job id: invocations started by a trigger
    dropped,    \* per job id: firings rejected by max_instances
    caught,     \* per job id: exceptions caught by the job body's handler
    escaped,    \* per job id: exceptions that left a job body
    scored,     \* the record handed to the scorer and what its calls gave
    responses,  \* the responses of the collection endpoints, in order
    detected,   \* the records handed to detect_category and what it gave
    coll,       \* the invocation of a collector's run() and collect()
    conc        \* per session: a batch that runs beside the other session's

storeVars == <<store, sess, spc, bsource, stats, bno, committed_batches, log,
               clock>>
runVars   == <<ledger, runs>>
schedVars == <<is_running, jobs, nsetup, ncalls, lastcall, nmanual, bodies, fired,
               started, dropped, caught, escaped>>
extVars   == <<detected, coll, conc>>
funVars   == <<scored, responses, extVars>>
vars      == <<storeVars, runVars, schedVars, funVars>>

----------------------------------------------------------------------------
(* Bounds *)

MaxUpserts == 3
MaxBatches == 2
MaxRuns == 2
MaxFirings == 2
MaxCalls == 3
MaxDetections == 2
MaxQueries == 2

----------------------------------------------------------------------------
(* Values *)

Absent == <<"ABSENT">>
Null == <<"NULL">>
AbsentN == -1
NoneN == -2

Lowers == {"a","b","c","d","e","f","g","h","i","j","k","l","m","n","o","p",
           "q","r","s","t","u","v","w","x","y","z"}
Uppers == {"A","B","C","D","E","F","G","H","I","J","K","L","M","N","O","P",
           "Q","R","S","T","U","V","W","X","Y","Z"}
Digits == {"0","1","2","3","4","5","6","7","8","9"}

LowerOf ==
    [A |-> "a", B |-> "b", C |-> "c", D |-> "d", E |-> "e", F |-> "f",
     G |-> "g", H |-> "h", I |-> "i", J |-> "j", K |-> "k", L |-> "l",
     M |-> "m", N |-> "n", O |-> "o", P |-> "p", Q |-> "q", R |-> "r",
     S |-> "s", T |-> "t", U |-> "u", V |-> "v", W |-> "w", X |-> "x",
     Y |-> "y", Z |-> "z"]

\* str.lower() on one character
LowerChar(c) == IF c \in Uppers THEN LowerOf[c] ELSE c

\* str.lower()
Lower(s) == [i \in 1..Len(s) |-> LowerChar(s[i])]

\* the character class [a-zA-Z0-9] of the regular expression
IsAlnum(c) == c \in Lowers \cup Uppers \cup Digits

\* re.sub(r'[^a-zA-Z0-9]+', '-', s): every maximal run of other characters
\* becomes one dash
RECURSIVE SubNonAlnum(_, _)
SubNonAlnum(s, inrun) ==
    IF s = <<>> THEN <<>>
    ELSE IF IsAlnum(Head(s)) THEN <<Head(s)>> \o SubNonAlnum(Tail(s), FALSE)
    ELSE IF inrun THEN SubNonAlnum(Tail(s), TRUE)
    ELSE <<"-">> \o SubNonAlnum(Tail(s), TRUE)

\* str.strip('-')
RECURSIVE LStripDash(_)
LStripDash(s) ==
    IF s # <<>> /\ Head(s) = "-" THEN LStripDash(Tail(s)) ELSE s

RECURSIVE RStripDash(_)
RStripDash(s) ==
    IF s # <<>> /\ s[Len(s)] = "-" THEN RStripDash(SubSeq(s, 1, Len(s) - 1))
    ELSE s

StripDash(s) == RStripDash(LStripDash(s))

\* ProjectSource values
GITHUB == <<"g","i","t","h","u","b">>
GALXE == <<"g","a","l","x","e">>
Sources == {GITHUB, GALXE}

\* a slug that keeps the case of the name
generate_slug_keeps_case(name, source) ==
    StripDash(SubNonAlnum(name, FALSE)) \o <<"-">> \o source

\* ProjectService.generate_slug; name is a string (None raises before this)
generate_slug(name, source) ==
    StripDash(SubNonAlnum(Lower(name), FALSE)) \o <<"-">> \o source

----------------------------------------------------------------------------
(* Records handed to the upsert store *)

StartsWith(s, p) == Len(s) >= Len(p) /\ SubSeq(s, 1, Len(p)) = p

\* the character class [a-zA-Z0-9_]
IsHandleChar(c) == IsAlnum(c) \/ c = "_"

\* the longest prefix of s made of handle characters: the group ([a-zA-Z0-9_]+)
RECURSIVE HandleRun(_)
HandleRun(s) ==
    IF s # <<>> /\ IsHandleChar(Head(s)) THEN <<Head(s)>> \o HandleRun(Tail(s))
    ELSE <<>>

TwitterCom == <<"t","w","i","t","t","e","r",".","c","o","m","/">>
XCom == <<"x",".","c","o","m","/">>

\* re.search(r'(?:twitter\.com|x\.com)/([a-zA-Z0-9_]+)', url): leftmost match
RECURSIVE SearchHandle(_)
SearchHandle(s) ==
    IF s = <<>> THEN Null
    ELSE IF StartsWith(s, TwitterCom)
            /\ HandleRun(SubSeq(s, Len(TwitterCom) + 1, Len(s))) # <<>>
         THEN HandleRun(SubSeq(s, Len(TwitterCom) + 1, Len(s)))
    ELSE IF StartsWith(s, XCom)
            /\ HandleRun(SubSeq(s, Len(XCom) + 1, Len(s))) # <<>>
         THEN HandleRun(SubSeq(s, Len(XCom) + 1, Len(s)))
    ELSE SearchHandle(Tail(s))

\* Python truthiness of an optional string
Truthy(v) == v # Absent /\ v # Null /\ v # <<>>

\* dict.get(key) and dict.get(key, default)
Get(v) == IF v = Absent THEN Null ELSE v
GetD(v, d) == IF v = Absent THEN d ELSE v
GetN(v, d) == IF v = AbsentN THEN d ELSE v

\* ProjectService._extract_twitter_handle
extract_twitter_handle(url) ==
    IF ~Truthy(url) THEN Null ELSE SearchHandle(url)

\* early-signal tags produced by the collectors; the test
\* "testnet" in s or "devnet" in s is true of exactly the first two
SignalTags == {"keyword:testnet", "keyword:devnet", "keyword:alpha", "low_stars"}
HasNetWord(tag) == tag \in {"keyword:testnet", "keyword:devnet"}

FooBar == <<"F","o","o"," ","B","a","r">>
FooDash == <<"f","o","o","-","b","a","r">>
Baz == <<"-","b","a","z","!","!">>
Unknown == <<"U","n","k","n","o","w","n">>
unknown == <<"u","n","k","n","o","w","n">>

TW1 == <<"x",".","c","o","m","/","a","l">>
TW2 == <<"h","/","t","w","i","t","t","e","r",".","c","o","m","/","b","_","1","?">>
DC1 == <<"d",".","g","g","/","a">>
DC2 == <<"d",".","g","g","/","b">>
WEB1 == <<"a",".","i","o">>
WEB2 == <<"b",".","i","o">>

DescRollup == <<"z","k"," ","R","o","l","l","u","p">>
DescDex == <<"A"," ","D","E","X">>
TopicSdk == <<"s","d","k">>

\* a record without description, topics and fork count; ' '.join(topics) is
\* the same for a missing key and for an empty list
Rec(n, st, cm, ct, tw, dc, web, sig) ==
    [name |-> n, description |-> Absent, github_topics |-> <<>>,
     github_stars |-> st, github_forks |-> AbsentN,
     github_commits_30d |-> cm, github_contributors |-> ct,
     twitter_url |-> tw, discord_url |-> dc, website_url |-> web,
     early_signals |-> sig]

\* the same record with a fork count, a description and topics
With(rec, fk, desc, topics) ==
    [rec EXCEPT !.github_forks = fk, !.description = desc,
                !.github_topics = topics]

\* the records the environment may hand to the store
Records ==
    { With(Rec(FooBar, 150, 60, 8, TW1, Null, <<>>, <<"low_stars">>),
           12, DescRollup, <<>>),
      With(Rec(FooDash, 15, 11, 3, TW2, DC1, WEB1, <<"keyword:testnet">>),
           3, DescDex, <<TopicSdk>>),
      Rec(FooDash, AbsentN, AbsentN, AbsentN, Absent, DC2, WEB2, Absent),
      With(Rec(FooDash, NoneN, 25, 0, TW2, DC2, WEB2, <<>>), 7, Null, <<>>),
      Rec(Baz, 60, 0, 0, Null, Null, Null, <<"keyword:devnet", "low_stars">>),
      Rec(Absent, 0, 0, 0, Null, Null, WEB1, <<>>),
      Rec(Null, 25, 0, 0, TW1, Null, Null, <<>>) }

----------------------------------------------------------------------------
(* Scorer *)

\* a comparison such as stars > 100 raises TypeError when the value is None
score_raises(data) ==
    \/ GetN(data.github_stars, 0) = NoneN
    \/ GetN(data.github_commits_30d, 0) = NoneN
    \/ GetN(data.github_contributors, 0) = NoneN

\* a star bonus whose tiers include their boundaries
StarBonusInclusive(stars) ==
    IF stars >= 100 THEN 20 ELSE IF stars >= 50 THEN 15
    ELSE IF stars >= 20 THEN 10 ELSE IF stars >= 10 THEN 5 ELSE 0

StarBonus(stars) ==
    IF stars > 100 THEN 20 ELSE IF stars > 50 THEN 15
    ELSE IF stars > 20 THEN 10 ELSE IF stars > 10 THEN 5 ELSE 0

CommitBonus(commits) ==
    IF commits > 50 THEN 15 ELSE IF commits > 20 THEN 10
    ELSE IF commits > 10 THEN 5 ELSE 0

ContributorBonus(contributors) ==
    IF contributors > 5 THEN 10 ELSE IF contributors > 2 THEN 5 ELSE 0

SignalBonus(signals) ==
    IF \E i \in 1..Len(signals) : HasNetWord(signals[i]) THEN 5 ELSE 0

Min(a, b) == IF a < b THEN a ELSE b

\* a scorer without the cap
score_uncapped(data) ==
    50 + StarBonus(GetN(data.github_stars, 0))
       + CommitBonus(GetN(data.github_commits_30d, 0))
       + ContributorBonus(GetN(data.github_contributors, 0))
       + SignalBonus(GetD(data.early_signals, <<>>))
       + (IF Truthy(data.twitter_url) THEN 3 ELSE 0)
       + (IF Truthy(data.discord_url) THEN 2 ELSE 0)

\* ProjectService.calculate_initial_score, in tenths
calculate_initial_score(data) ==
    Min(100, 50 + StarBonus(GetN(data.github_stars, 0))
                + CommitBonus(GetN(data.github_commits_30d, 0))
                + ContributorBonus(GetN(data.github_contributors, 0))
                + SignalBonus(GetD(data.early_signals, <<>>))
                + (IF Truthy(data.twitter_url) THEN 3 ELSE 0)
                + (IF Truthy(data.discord_url) THEN 2 ELSE 0))

----------------------------------------------------------------------------
(* Upsert store *)

\* a lookup that compares the wrong column
RowsWithSlugByName(rows, slug) == {i \in 1..Len(rows) : rows[i].name = slug}

\* indices of the rows a SELECT ... WHERE slug = :slug returns
RowsWithSlug(rows, slug) == {i \in 1..Len(rows) : rows[i].slug = slug}

\* Project.slug is declared unique: a flush that would leave two rows with
\* one slug fails with IntegrityError
UniqueSlugs(rows) ==
    \A i, j \in 1..Len(rows) : rows[i].slug = rows[j].slug => i = j

\* (value or ""): a missing, null or empty text reads as the empty text
OrEmpty(v) == IF Truthy(v) THEN v ELSE <<>>

\* kw in text
Contains(text, kw) ==
    \E k \in 0..(Len(text) - Len(kw)) :
        text[k + 1] = kw[1] /\ SubSeq(text, k + 1, k + Len(kw)) = kw

\* ' '.join(topics)
RECURSIVE JoinSpace(_)
JoinSpace(topics) ==
    IF topics = <<>> THEN <<>>
    ELSE IF Len(topics) = 1 THEN Head(topics)
    ELSE Head(topics) \o <<" ">> \o JoinSpace(Tail(topics))

\* the detection rules of detect_category, in the order they are tried
CategoryRules ==
    << [category |-> "l2",
        keywords |-> {<<"l","a","y","e","r","2">>,
                      <<"l","2">>,
                      <<"r","o","l","l","u","p">>,
                      <<"z","k","-","r","o","l","l","u","p">>,
                      <<"o","p","t","i","m","i","s","t","i","c">>}],
       [category |-> "l1",
        keywords |-> {<<"l","a","y","e","r","1">>,
                      <<"l","1">>,
                      <<"b","l","o","c","k","c","h","a","i","n">>,
                      <<"c","o","n","s","e","n","s","u","s">>}],
       [category |-> "defi",
        keywords |-> {<<"d","e","f","i">>,
                      <<"d","e","x">>,
                      <<"s","w","a","p">>,
                      <<"l","e","n","d","i","n","g">>,
                      <<"y","i","e","l","d">>,
                      <<"a","m","m">>,
                      <<"l","i","q","u","i","d","i","t","y">>}],
       [category |-> "infrastructure",
        keywords |-> {<<"b","r","i","d","g","e">>,
                      <<"c","r","o","s","s","-","c","h","a","i","n">>,
                      <<"i","n","t","e","r","o","p","e","r","a","b","i","l","i","t","y">>,
                      <<"o","r","a","c","l","e">>}],
       [category |-> "tooling",
        keywords |-> {<<"s","d","k">>,
                      <<"t","o","o","l">>,
                      <<"l","i","b","r","a","r","y">>,
                      <<"f","r","a","m","e","w","o","r","k">>,
                      <<"c","l","i">>,
                      <<"a","p","i">>}],
       [category |-> "gaming",
        keywords |-> {<<"g","a","m","e">>,
                      <<"g","a","m","i","n","g">>,
                      <<"p","l","a","y","-","t","o","-","e","a","r","n">>,
                      <<"m","e","t","a","v","e","r","s","e">>}],
       [category |-> "nft",
        keywords |-> {<<"n","f","t">>,
                      <<"c","o","l","l","e","c","t","i","b","l","e">>,
                      <<"m","a","r","k","e","t","p","l","a","c","e">>}],
       [category |-> "social",
        keywords |-> {<<"s","o","c","i","a","l">>,
                      <<"d","a","o">>,
                      <<"g","o","v","e","r","n","a","n","c","e">>,
                      <<"c","o","m","m","u","n","i","t","y">>}],
       [category |-> "ai",
        keywords |-> {<<" ","a","i"," ">>,
                      <<"m","a","c","h","i","n","e"," ","l","e","a","r","n","i","n","g">>,
                      <<"l","l","m">>,
                      <<"g","p","t">>,
                      <<"n","e","u","r","a","l">>}] >>

\* f"{description} {name} {' '.join(topics)}", all in lower case
AllText(data) ==
    Lower(OrEmpty(Get(data.description))) \o <<" ">>
        \o Lower(OrEmpty(Get(data.name))) \o <<" ">>
        \o JoinSpace([i \in 1..Len(data.github_topics) |->
                          Lower(data.github_topics[i])])

\* a detection in which the last matching rule wins
RECURSIVE LastRule(_, _)
LastRule(text, k) ==
    IF k > Len(CategoryRules) THEN "other"
    ELSE IF LastRule(text, k + 1) # "other" THEN LastRule(text, k + 1)
    ELSE IF \E kw \in CategoryRules[k].keywords : Contains(text, kw)
         THEN CategoryRules[k].category
    ELSE "other"

RECURSIVE FirstRule(_, _)
FirstRule(text, k) ==
    IF k > Len(CategoryRules) THEN "other"
    ELSE IF \E kw \in CategoryRules[k].keywords : Contains(text, kw)
         THEN CategoryRules[k].category
    ELSE FirstRule(text, k + 1)

\* ProjectService.detect_category
detect_category(data) == FirstRule(AllText(data), 1)

\* "github_topics": None; data.get("github_topics", []) gives None, and the
\* comprehension over it raises TypeError
NullTopics == << Null >>
category_raises(data) == data.github_topics = NullTopics

\* detect_category of the records of Records, evaluated once
CategoryOf == [r \in Records |-> detect_category(r)]

\* detect_category(data), looked up where it was evaluated before
Category(data) ==
    IF data \in DOMAIN CategoryOf THEN CategoryOf[data] ELSE detect_category(data)

\* a creation that leaves the score to the default of the column
NewProjectDefaultScore(rows, data, source, slug, now) ==
    [id |-> Len(rows) + 1,
     name |-> GetD(data.name, Unknown),
     slug |-> slug,
     description |-> Get(data.description),
     source |-> source,
     github_stars |-> GetN(data.github_stars, 0),
     github_forks |-> GetN(data.github_forks, 0),
     github_commits_30d |-> GetN(data.github_commits_30d, 0),
     github_contributors |-> GetN(data.github_contributors, 0),
     twitter_url |-> Get(data.twitter_url),
     twitter_handle |-> extract_twitter_handle(Get(data.twitter_url)),
     website_url |-> Get(data.website_url),
     discord_url |-> Get(data.discord_url),
     category |-> Category(data),
     score |-> 50,
     confidence |-> 3,
     status |-> "new",
     discovered_at |-> now,
     updated_at |-> now]

\* ProjectService._create_project: the row it adds to the session
NewProject(rows, data, source, slug, now) ==
    [id |-> Len(rows) + 1,
     name |-> GetD(data.name, Unknown),
     slug |-> slug,
     description |-> Get(data.description),
     source |-> source,
     github_stars |-> GetN(data.github_stars, 0),
     github_forks |-> GetN(data.github_forks, 0),
     github_commits_30d |-> GetN(data.github_commits_30d, 0),
     github_contributors |-> GetN(data.github_contributors, 0),
     twitter_url |-> Get(data.twitter_url),
     twitter_handle |-> extract_twitter_handle(Get(data.twitter_url)),
     website_url |-> Get(data.website_url),
     discord_url |-> Get(data.discord_url),
     category |-> Category(data),
     score |-> calculate_initial_score(data),
     confidence |-> 3,
     status |-> "new",
     discovered_at |-> now,
     updated_at |-> now]

\* ProjectService._create_project: scoring comes first and may raise; the
\* row is added only when nothing raised
create_project(rows, data, source, slug, now) ==
    IF category_raises(data) \/ score_raises(data)
    THEN [raised |-> "TypeError", rows |-> rows]
    ELSE [raised |-> "no",
          rows |-> Append(rows, NewProject(rows, data, source, slug, now))]

\* a merge that lets the latest record win its social links
MergeFieldsLastWins(project, data) ==
    [project EXCEPT
        !.github_stars = GetN(data.github_stars, @),
        !.github_forks = GetN(data.github_forks, @),
        !.github_commits_30d = GetN(data.github_commits_30d, @),
        !.github_contributors = GetN(data.github_contributors, @),
        !.twitter_url = IF Truthy(data.twitter_url) THEN data.twitter_url ELSE @,
        !.twitter_handle =
            IF Truthy(data.twitter_url)
            THEN extract_twitter_handle(data.twitter_url) ELSE @,
        !.discord_url = IF Truthy(data.discord_url) THEN data.discord_url ELSE @,
        !.website_url = IF Truthy(data.website_url) THEN data.website_url ELSE @]

\* the assignments of _update_project that precede the scoring
MergeFields(project, data) ==
    [project EXCEPT
        !.github_stars = GetN(data.github_stars, @),
        !.github_forks = GetN(data.github_forks, @),
        !.github_commits_30d = GetN(data.github_commits_30d, @),
        !.github_contributors = GetN(data.github_contributors, @),
        !.twitter_url =
            IF Truthy(data.twitter_url) /\ ~Truthy(@)
            THEN data.twitter_url ELSE @,
        !.twitter_handle =
            IF Truthy(data.twitter_url) /\ ~Truthy(project.twitter_url)
            THEN extract_twitter_handle(data.twitter_url) ELSE @,
        !.discord_url =
            IF Truthy(data.discord_url) /\ ~Truthy(@)
            THEN data.discord_url ELSE @,
        !.website_url =
            IF Truthy(data.website_url) /\ ~Truthy(@)
            THEN data.website_url ELSE @]

\* a recalculation that leaves the time stamp alone
RescoreOnly(project, data, now) ==
    [project EXCEPT !.score = calculate_initial_score(data)]

\* the last two assignments of _update_project
Rescore(project, data, now) ==
    [project EXCEPT !.score = calculate_initial_score(data),
                    !.updated_at = now]

\* Project.updated_at has onupdate=func.now(): the UPDATE that the flush
\* emits for a changed row sets the column when the code did not
OnUpdate(old, new, now) ==
    IF new # old /\ new.updated_at = old.updated_at
    THEN [new EXCEPT !.updated_at = now] ELSE new

\* an update that also takes the name of the record
update_project_renames(rows, i, data, now) ==
    IF score_raises(data)
    THEN [raised |-> "TypeError",
          rows |-> [rows EXCEPT ![i] = OnUpdate(@, MergeFields(@, data), now)]]
    ELSE [raised |-> "no",
          rows |-> [rows EXCEPT ![i] =
                      [Rescore(MergeFields(@, data), data, now)
                          EXCEPT !.name = GetD(data.name, Unknown)]]]

\* ProjectService._update_project: the loaded object is changed field by
\* field; when the scoring raises, the earlier assignments stay on the object
\* and reach the database with the next flush
update_project(rows, i, data, now) ==
    IF score_raises(data)
    THEN [raised |-> "TypeError",
          rows |-> [rows EXCEPT ![i] = OnUpdate(@, MergeFields(@, data), now)]]
    ELSE [raised |-> "no",
          rows |-> [rows EXCEPT ![i] =
                      Rescore(MergeFields(@, data), data, now)]]

\* the slug _save_single_project looks up: data.get("name", "unknown")
SlugOf(data, source) == generate_slug(GetD(data.name, unknown), source)

\* the slug of every record under every source, computed once
SlugTable ==
    [r \in {d \in Records : d.name # Null} |->
        [src \in Sources |-> SlugOf(r, src)]]

\* a lookup that reads the committed rows only
LookupCommitted(sessRows, committedRows) == committedRows

\* the SELECT of _save_single_project sees the session's rows: the session
\* flushes its pending rows before every query
LookupRows(sessRows, committedRows) == sessRows

\* ProjectService._save_single_project: outcome is "new" or "updated";
\* raised is "no" or the class of the exception that leaves the method
\* (None.lower() in generate_slug, a comparison with None in the scoring,
\* MultipleResultsFound from scalar_one_or_none)
save_single_project(rows, committed, data, source, now) ==
    IF data.name = Null
    THEN [outcome |-> "none", raised |-> "AttributeError", rows |-> rows]
    ELSE LET slug == SlugOf(data, source)
             found == RowsWithSlug(LookupRows(rows, committed), slug)
         IN  IF found = {}
             THEN LET c == create_project(rows, data, source, slug, now)
                  IN  [outcome |-> "new", raised |-> c.raised, rows |-> c.rows]
             ELSE IF Cardinality(found) > 1
             THEN [outcome |-> "none", raised |-> "MultipleResultsFound",
                   rows |-> rows]
             ELSE LET i == CHOOSE k \in found : TRUE
                      u == update_project(rows, i, data, now)
                  IN  [outcome |-> "updated", raised |-> u.raised,
                       rows |-> u.rows]

\* a handler that catches one class only
CatchesAttributeErrorOnly(exc) == exc = "AttributeError"

\* except Exception (line 114): the classes above all derive from Exception
BatchCatches(exc) ==
    exc \in {"AttributeError", "TypeError", "MultipleResultsFound"}

ZeroStats == [new |-> 0, updated |-> 0, skipped |-> 0]

\* save_projects_from_collector up to the opening of the session
\* a batch that goes on counting where the last one stopped
StartBatchKeepsStats(source) ==
    /\ spc # "batch"
    /\ bno < MaxBatches
    /\ spc' = "batch"
    /\ bsource' = source
    /\ sess' = store
    /\ stats' = stats
    /\ bno' = bno + 1
    /\ UNCHANGED <<store, committed_batches, log, clock>>
    /\ UNCHANGED <<runVars, schedVars, funVars>>

StartBatch(source) ==
    /\ spc # "batch"
    /\ bno < MaxBatches
    /\ spc' = "batch"
    /\ bsource' = source
    /\ sess' = store
    /\ stats' = ZeroStats
    /\ bno' = bno + 1
    /\ UNCHANGED <<store, committed_batches, log, clock>>
    /\ UNCHANGED <<runVars, schedVars, funVars>>

\* one iteration of the loop of save_projects_from_collector: the record is
\* counted under its outcome, or under skipped when the handler catches what
\* it raised; an exception the handler does not catch leaves the method, and
\* closing the session rolls the batch back
ProcessRecord(data) ==
    /\ spc = "batch"
    /\ Len(log) < MaxUpserts
    /\ LET r == save_single_project(sess, store, data, bsource, clock + 1)
           key == IF r.raised = "no" THEN r.outcome
                  ELSE IF BatchCatches(r.raised) THEN "skipped" ELSE "aborted"
       IN  /\ log' = Append(log, [data |-> data, source |-> bsource,
                                  outcome |-> key, batch |-> bno])
           /\ IF key = "aborted"
              THEN /\ spc' = "aborted"
                   /\ sess' = store
                   /\ stats' = stats
              ELSE /\ spc' = spc
                   /\ sess' = r.rows
                   /\ stats' = [stats EXCEPT ![key] = @ + 1]
    /\ clock' = clock + 1
    /\ UNCHANGED <<store, bsource, bno, committed_batches>>
    /\ UNCHANGED <<runVars, schedVars, funVars>>

\* a commit that writes the rows the session holds even when it fails
commit_partial(committed, sessRows, ok) == sessRows

\* session.commit() (line 118): the rows of the session become the committed
\* rows in one transaction, or the transaction is rolled back
commit(committed, sessRows, ok) == IF ok THEN sessRows ELSE committed

\* session.commit() and the return of stats; a commit that would break the
\* unique index, or that the database refuses, raises: the session is rolled
\* back and nothing is returned
CommitBatch(commitOk) ==
    /\ spc = "batch"
    /\ store' = commit(store, sess, commitOk /\ UniqueSlugs(sess))
    /\ spc' = IF ~UniqueSlugs(sess) THEN "aborted"
              ELSE IF commitOk THEN "returned" ELSE "refused"
    /\ committed_batches' = IF commitOk /\ UniqueSlugs(sess)
                  THEN committed_batches \cup {bno} ELSE committed_batches
    /\ UNCHANGED <<sess, bsource, stats, bno, log, clock>>
    /\ UNCHANGED <<runVars, schedVars, funVars>>

\* the process dies inside the loop or before the commit: the transaction
\* of the open session is never committed
Crash ==
    /\ spc = "batch"
    /\ spc' = "crashed"
    /\ store' = commit(store, sess, FALSE)
    /\ UNCHANGED <<sess, bsource, stats, bno, committed_batches, log, clock>>
    /\ UNCHANGED <<runVars, schedVars, funVars>>

StoreInit ==
    /\ store = <<>>
    /\ sess = <<>>
    /\ spc = "idle"
    /\ bsource = GITHUB
    /\ stats = ZeroStats
    /\ bno = 0
    /\ committed_batches = {}
    /\ log = <<>>
    /\ clock = 0

Next ==
    \/ \E source \in Sources : StartBatch(source)
    \/ \E data \in Records : ProcessRecord(data)
    \/ CommitBatch(TRUE)

\* the records of the batches that meet a failing database or a crash
FaultRecords ==
    { Rec(FooBar, 150, 60, 8, TW1, Null, <<>>, <<"low_stars">>),
      Rec(FooDash, 15, 11, 3, TW2, DC1, WEB1, <<"keyword:testnet">>),
      Rec(Null, 15, 11, 3, Null, Null, Null, <<>>) }

\* the upsert store in an environment that fails: the database may refuse a
\* commit and the process may die inside a batch
NextFaulty ==
    \/ \E source \in Sources : StartBatch(source)
    \/ \E data \in FaultRecords : ProcessRecord(data)
    \/ \E commitOk \in BOOLEAN : CommitBatch(commitOk)
    \/ Crash


----------------------------------------------------------------------------
(* The scorer on its own *)

\* one call of calculate_initial_score: the value returned, or the exception
score_call(data) ==
    IF score_raises(data)
    THEN [raised |-> "TypeError", value |-> <<>>]
    ELSE [raised |-> "no", value |-> <<calculate_initial_score(data)>>]

\* the records handed to the scorer: every metric below, at and above each
\* threshold of the scorer, absent and null
StarInputs == {AbsentN, NoneN, 0, 10, 11, 20, 21, 50, 51, 100, 101}
CommitInputs == {AbsentN, 0, 10, 11, 20, 21, 50, 51}
ContributorInputs == {0, 2, 3, 5, 6}
SignalInputs == {Absent, <<>>, <<"low_stars">>, <<"low_stars", "keyword:devnet">>}
ScoreInputs ==
    { Rec(FooBar, st, cm, ct, tw, dc, Null, sig) :
        st \in StarInputs, cm \in CommitInputs, ct \in ContributorInputs,
        tw \in {Null, <<>>, TW1}, dc \in {Absent, DC1}, sig \in SignalInputs }

\* calculate_initial_score is called on a record, on its own, before the
\* first batch
ScoreOnce(data) ==
    /\ scored = <<>>
    /\ bno = 0
    /\ scored' = <<[data |-> data, result |-> score_call(data)]>>
    /\ UNCHANGED <<storeVars, runVars, schedVars, responses, extVars>>

\* calculate_initial_score is called on the same record again
ScoreAgain ==
    /\ Len(scored) = 1
    /\ scored' = Append(scored, [data |-> scored[1].data,
                                 result |-> score_call(scored[1].data)])
    /\ UNCHANGED <<storeVars, runVars, schedVars, responses, extVars>>

\* the scorer on its own, or the upsert store
ScoreNext ==
    \/ (scored = <<>> /\ bno = 0 /\ \E data \in ScoreInputs : ScoreOnce(data))
    \/ ScoreAgain
    \/ (scored = <<>> /\ Next)

ScoreInit == scored = <<>>

----------------------------------------------------------------------------
(* Properties of the upsert store *)

SlugCount(rows, slug) ==
    Cardinality({i \in 1..Len(rows) : rows[i].slug = slug})

\* a record whose processing raises: a null name, or a null metric
Malformed(data) == data.name = Null \/ score_raises(data)

\* a record without a usable name: the key is missing or its value is null
NoName(data) == data.name = Absent \/ data.name = Null

\* the log entries of the running (or last) batch
BatchEntries == {i \in 1..Len(log) : log[i].batch = bno}

\* the rows the running batch works on, or the committed rows between batches
Current == IF spc = "batch" THEN sess ELSE store

\* the step just taken processed a record: e is its log entry
Processed == Len(log') = Len(log) + 1

\* C1: the store never holds two Projects with one slug; a record creates a
\* Project only when its slug has no row yet, and a record whose slug has a
\* row merges into it: the number of rows with that slug and the number of
\* rows overall stay the same.
C1_OneProjectPerSlug ==
    [][ /\ UniqueSlugs(store')
        /\ spc = "batch" => Len(sess') <= Len(sess) + 1
        /\ (Processed /\ log'[Len(log')].data.name # Null) =>
              LET e == log'[Len(log')]
                  slug == SlugOf(e.data, e.source)
                  n == SlugCount(sess, slug)
                  m == SlugCount(sess', slug)
              IN  /\ n = 0 => /\ m <= 1
                              /\ (e.outcome = "new") = (m = 1)
                  /\ n > 0 => /\ m = n
                              /\ Len(sess') = Len(sess)
                              /\ e.outcome # "new" ]_vars

\* a slug observed in two batches: created by the first, merged by the second
C1_Witness ==
    /\ spc = "returned"
    /\ \E i, j \in 1..Len(log) :
          /\ log[i].batch < log[j].batch
          /\ log[i].outcome = "new"
          /\ log[j].outcome = "updated"
          /\ log[i].data.name # log[j].data.name
          /\ SlugOf(log[i].data, log[i].source) = SlugOf(log[j].data, log[j].source)
          /\ SlugCount(store, SlugOf(log[i].data, log[i].source)) = 1

\* entry i is the first time a record that can be stored is seen for its slug
FirstOfSlug(i) ==
    \A k \in 1..(i - 1) :
        ~ (/\ ~Malformed(log[k].data)
           /\ SlugOf(log[k].data, log[k].source) = SlugOf(log[i].data, log[i].source))

\* entries i < j carry the same record for the same source
SameRecordTwice(i, j) ==
    /\ i < j
    /\ log[i].data = log[j].data
    /\ log[i].source = log[j].source
    /\ ~Malformed(log[i].data)

\* C2: when a record that can be stored is upserted twice with identical
\* data and its slug was not stored before, the first upsert counts as new,
\* the second as updated, and one Project with that slug exists afterwards,
\* in one batch as well as across two batches.
C2_UpsertTwice ==
    \A i, j \in 1..Len(log) :
        (SameRecordTwice(i, j) /\ FirstOfSlug(i)) =>
            /\ log[i].outcome = "new"
            /\ log[j].outcome = "updated"
            /\ SlugCount(Current, SlugOf(log[i].data, log[i].source)) = 1
            /\ spc = "returned" =>
                  SlugCount(store, SlugOf(log[i].data, log[i].source)) = 1

\* a record upserted twice in one batch and once more in a later batch
C2_Witness ==
    /\ spc = "returned"
    /\ \E i, j \in 1..Len(log) :
          SameRecordTwice(i, j) /\ FirstOfSlug(i) /\ log[i].batch = log[j].batch
    /\ \E i, j \in 1..Len(log) :
          SameRecordTwice(i, j) /\ FirstOfSlug(i) /\ log[i].batch < log[j].batch

LinkFields == {"twitter_url", "discord_url", "website_url"}

\* the step just taken merged a record into the row at index i of the session
MergedInto(i) ==
    /\ Processed
    /\ spc = "batch"
    /\ log'[Len(log')].data.name # Null
    /\ i \in 1..Len(sess)
    /\ sess[i].slug = SlugOf(log'[Len(log')].data, log'[Len(log')].source)

\* C3 as stated: a stored non-null link is never replaced by a different
\* non-null value, and a stored null link takes the record's non-null value.
C3_AsStated ==
    [][ \A i \in 1..Len(sess), f \in LinkFields :
          MergedInto(i) =>
            LET old == sess[i][f]
                new == sess'[i][f]
                v == Get(log'[Len(log')].data[f])
            IN  /\ (old # Null /\ v # Null /\ v # old) => new = old
                /\ (old = Null /\ v # Null) => new = v ]_vars

\* C3: a stored link that is neither null nor empty is never replaced; a
\* stored link that is null or empty takes the record's value when that is
\* neither null nor empty; a record without such a value changes nothing.
C3_FirstWriterWins ==
    [][ \A i \in 1..Len(sess), f \in LinkFields :
          MergedInto(i) =>
            LET old == sess[i][f]
                new == sess'[i][f]
                v == Get(log'[Len(log')].data[f])
            IN  /\ Truthy(old) => new = old
                /\ (~Truthy(old) /\ Truthy(v)) => new = v
                /\ ~Truthy(v) => new = old ]_vars

\* a Project created with one Twitter link and no Discord link, then merged
\* with a record carrying another Twitter link and a Discord link
C3_Witness ==
    /\ spc = "returned"
    /\ \E i, j \in 1..Len(log), k \in 1..Len(store) :
          /\ i < j
          /\ log[i].outcome = "new"
          /\ log[j].outcome = "updated"
          /\ store[k].slug = SlugOf(log[i].data, log[i].source)
          /\ store[k].slug = SlugOf(log[j].data, log[j].source)
          /\ Truthy(log[i].data.twitter_url)
          /\ Truthy(log[j].data.twitter_url)
          /\ log[i].data.twitter_url # log[j].data.twitter_url
          /\ store[k].twitter_url = log[i].data.twitter_url
          /\ ~Truthy(log[i].data.discord_url)
          /\ Truthy(log[j].data.discord_url)
          /\ store[k].discord_url = log[j].data.discord_url

\* the batch has ended and exactly one of its records satisfies Bad
OneBadRecord(Bad(_)) ==
    /\ spc \in {"returned", "aborted"}
    /\ Cardinality({i \in BatchEntries : Bad(log[i].data)}) = 1

\* the counts a batch with one skipped record returns
OneSkipped ==
    /\ spc = "returned"
    /\ stats.skipped = 1
    /\ stats.new + stats.updated = Cardinality(BatchEntries) - 1

BadAsStated(data) == NoName(data) \/ Malformed(data)

\* C4 as stated: a batch with exactly one malformed record, a record without
\* a name being malformed, returns skipped = 1 and new + updated = N - 1.
C4_AsStated == OneBadRecord(BadAsStated) => OneSkipped

\* C4: a batch with exactly one record whose processing raises (its name or
\* one of its metrics is null) returns skipped = 1 and new + updated = N - 1,
\* the batch is committed and every other record has its Project in the
\* store; a record that only lacks the name key is not skipped.
C4_BatchResilience ==
    OneBadRecord(Malformed) =>
        /\ OneSkipped
        /\ store = sess
        /\ \A i \in BatchEntries :
              ~Malformed(log[i].data) =>
                  /\ log[i].outcome \in {"new", "updated"}
                  /\ SlugCount(store, SlugOf(log[i].data, log[i].source)) = 1

\* a returned batch of three records or more, one of them raising, with both
\* a creation and a merge among the others
C4_Witness ==
    /\ OneBadRecord(Malformed)
    /\ Cardinality(BatchEntries) >= 3
    /\ stats.new >= 1
    /\ stats.updated >= 1
    /\ stats.skipped = 1

----------------------------------------------------------------------------
(* Run ledger: BaseCollector.run *)

\* name and source of the collector classes
Collectors ==
    { [name |-> "github_crypto", source |-> "github"],
      [name |-> "defillama", source |-> "defillama"] }

\* what collect() may return
ResultLists ==
    { <<>>,
      << Rec(FooBar, 150, 60, 8, TW1, Null, <<>>, <<"low_stars">>) >>,
      << Rec(FooBar, 150, 60, 8, TW1, Null, <<>>, <<"low_stars">>),
         Rec(Baz, 60, 0, 0, Null, Null, Null, <<"keyword:devnet", "low_stars">>) >> }

\* what collect() may raise: class and message
CollectErrors ==
    { [class |-> "HTTPStatusError", msg |-> "403 rate limit"],
      [class |-> "KeyError", msg |-> "full_name"] }

\* CollectionLog(source=..., collector_name=..., started_at=...): the other
\* attributes are not set yet; a number or a flag that has been set is kept
\* as a one-element tuple, <<>> being the attribute not set
NewLogEntry(c, id) ==
    [run |-> id, source |-> c.source, collector_name |-> c.name,
     started_at |-> "set", finished_at |-> "unset", projects_found |-> <<>>,
     projects_new |-> <<>>, projects_updated |-> <<>>,
     success |-> <<>>, error_message |-> "unset"]

\* the INSERT fills the columns left unset with their defaults
InsertDefaults(e) ==
    [e EXCEPT
        !.finished_at = IF @ = "unset" THEN "null" ELSE @,
        !.projects_found = IF @ = <<>> THEN 0 ELSE @[1],
        !.projects_new = IF @ = <<>> THEN 0 ELSE @[1],
        !.projects_updated = IF @ = <<>> THEN 0 ELSE @[1],
        !.success = IF @ = <<>> THEN FALSE ELSE @[1],
        !.error_message = IF @ = "unset" THEN "null" ELSE @]

\* a handler for transport errors only
CatchesHTTPErrorOnly(class) == class = "HTTPStatusError"

\* except Exception (line 49)
RunCatches(class) == class \in {"HTTPStatusError", "KeyError"}

\* a write that is reached on the success path only
commit_on_success(rows, e, path) ==
    IF path = "try" THEN Append(rows, InsertDefaults(e)) ELSE rows

\* the finally clause (lines 62-65): the entry is added and committed however
\* the try statement was left
finally_commit(rows, e, path) == Append(rows, InsertDefaults(e))

\* lines 37-39: the entry after collect() returned results
ReturnedEntry(e, results) ==
    [e EXCEPT !.finished_at = "set",
              !.projects_found = <<Len(results)>>,
              !.success = <<TRUE>>]

\* lines 43-47: the dictionary returned on success
ReturnedValue(results) ==
    [success |-> TRUE, projects_found |-> Len(results), data |-> results]

\* lines 50-52: the entry after collect() raised
RaisedEntry(e, err) ==
    [e EXCEPT !.finished_at = "set",
              !.success = <<FALSE>>,
              !.error_message = err.msg]

\* lines 56-60: the dictionary returned on failure
RaisedValue(err) == [success |-> FALSE, error |-> err.msg, data |-> <<>>]

\* run() up to the call of collect()
RunStart(c) ==
    /\ Len(runs) < MaxRuns
    /\ runs' = Append(runs, [pc |-> "collecting",
                             entry |-> NewLogEntry(c, Len(runs) + 1),
                             collected |-> [kind |-> "pending"],
                             path |-> "none",
                             outcome |-> [kind |-> "pending"]])
    /\ UNCHANGED <<ledger, storeVars, schedVars, funVars>>

\* collect() returns results: lines 37-47
CollectReturns(i, results) ==
    /\ runs[i].pc = "collecting"
    /\ runs' = [runs EXCEPT ![i] =
          [@ EXCEPT
              !.pc = "finally",
              !.entry = ReturnedEntry(@, results),
              !.collected = [kind |-> "returned", results |-> results],
              !.path = "try",
              !.outcome = [kind |-> "return",
                           value |-> ReturnedValue(results)]]]
    /\ UNCHANGED <<ledger, storeVars, schedVars, funVars>>

\* collect() raises: the handler of lines 49-60 when it catches the class,
\* otherwise the exception goes on to the caller
CollectRaises(i, err) ==
    /\ runs[i].pc = "collecting"
    /\ runs' = [runs EXCEPT ![i] =
          IF RunCatches(err.class)
          THEN [@ EXCEPT
                  !.pc = "finally",
                  !.entry = RaisedEntry(@, err),
                  !.collected = [kind |-> "raised", err |-> err],
                  !.path = "except",
                  !.outcome = [kind |-> "return", value |-> RaisedValue(err)]]
          ELSE [@ EXCEPT
                  !.pc = "finally",
                  !.collected = [kind |-> "raised", err |-> err],
                  !.path = "escape",
                  !.outcome = [kind |-> "raise", err |-> err]]]
    /\ UNCHANGED <<ledger, storeVars, schedVars, funVars>>

\* the finally clause, then the pending return or raise reaches the caller
RunFinally(i) ==
    /\ runs[i].pc = "finally"
    /\ ledger' = finally_commit(ledger, runs[i].entry, runs[i].path)
    /\ runs' = [runs EXCEPT ![i].pc = "done"]
    /\ UNCHANGED <<storeVars, schedVars, funVars>>

RunNext ==
    \/ \E c \in Collectors : RunStart(c)
    \/ \E i \in 1..Len(runs), results \in ResultLists : CollectReturns(i, results)
    \/ \E i \in 1..Len(runs), err \in CollectErrors : CollectRaises(i, err)
    \/ \E i \in 1..Len(runs) : RunFinally(i)

RunInit ==
    /\ ledger = <<>>
    /\ runs = <<>>

----------------------------------------------------------------------------
(* Scheduler: TaskScheduler and the scheduler endpoints *)

\* a job that may run two invocations side by side
GithubJobTwoInstances == [id |-> "github_collection", max_instances |-> 1 + 1]

\* the three add_job calls of setup_jobs, each with max_instances=1
GithubJob == [id |-> "github_collection", max_instances |-> 1]
DefillamaJob == [id |-> "defillama_collection", max_instances |-> 1]
SummaryJob == [id |-> "daily_summary", max_instances |-> 1]

JobIds == {"github_collection", "defillama_collection", "daily_summary"}

\* add_job(..., id=..., replace_existing=True): a job with the same id is
\* replaced in place, otherwise the job is appended
add_job(js, job) ==
    IF \E i \in 1..Len(js) : js[i].id = job.id
    THEN [i \in 1..Len(js) |-> IF js[i].id = job.id THEN job ELSE js[i]]
    ELSE Append(js, job)

\* TaskScheduler.setup_jobs
setup_jobs(js) == add_job(add_job(add_job(js, GithubJob), DefillamaJob), SummaryJob)

\* a start() without its test of _is_running
StartsAlways(running) == TRUE

\* if not self._is_running (line 58)
StartGuard(running) == ~running

\* if self._is_running (line 66)
StopGuard(running) == running

\* indices of the executing invocations of job j started by a trigger: the
\* executor's instance count for the job id
Instances(j) ==
    {i \in 1..Len(bodies) : bodies[i].job = j /\ bodies[i].origin = "trigger"}

Remove(seq, i) == SubSeq(seq, 1, i - 1) \o SubSeq(seq, i + 1, Len(seq))

\* the bodies left by a shutdown that cancels those at the indices in S
Cancel(bs, S) ==
    LET keep == {i \in 1..Len(bs) : i \notin S}
        F[n \in 0..Len(bs)] ==
            IF n = 0 THEN <<>>
            ELSE IF n \in keep THEN Append(F[n - 1], bs[n]) ELSE F[n - 1]
    IN  F[Len(bs)]


\* the executing bodies the executor started
TriggerStarted == {i \in 1..Len(bodies) : bodies[i].origin = "trigger"}

\* an executor that accepts every job
RefusesNever(n, job) == FALSE

\* submit_job: MaxInstancesReachedError when the instance count of the job
\* has reached its max_instances
Refuses(n, job) == n >= job.max_instances

\* TaskScheduler.start(), called by the lifespan start-up and by the
\* endpoint start_scheduler, which tests _is_running itself first
Start ==
    /\ ncalls < MaxCalls
    /\ ncalls' = ncalls + 1
    /\ lastcall' = "start"
    /\ UNCHANGED nmanual
    /\ IF StartGuard(is_running)
       THEN /\ jobs' = setup_jobs(jobs)
            /\ nsetup' = nsetup + 1
            /\ is_running' = TRUE
       ELSE UNCHANGED <<jobs, nsetup, is_running>>
    /\ UNCHANGED <<bodies, fired, started, dropped, caught, escaped>>
    /\ UNCHANGED <<storeVars, runVars, funVars>>

\* TaskScheduler.stop(), called by the lifespan shutdown and by the endpoint
\* stop_scheduler, together with the shutdown the event loop runs for it.
\* shutdown(wait=False) cancels the futures of the executing jobs; a
\* cancellation that arrives inside a bare except of a collector is
\* swallowed and that body runs on, so any subset S of the trigger-started
\* bodies ends here.  The job store may or may not forget its jobs on
\* shutdown.
Stop(S, forget) ==
    /\ ncalls < MaxCalls
    /\ ncalls' = ncalls + 1
    /\ lastcall' = "stop"
    /\ UNCHANGED nmanual
    /\ S \subseteq TriggerStarted
    /\ IF StopGuard(is_running)
       THEN /\ is_running' = FALSE
            /\ jobs' = IF forget THEN <<>> ELSE jobs
            /\ bodies' = Cancel(bodies, S)
       ELSE UNCHANGED <<is_running, jobs, bodies>>
    /\ UNCHANGED <<nsetup, fired, started, dropped, caught, escaped>>
    /\ UNCHANGED <<storeVars, runVars, funVars>>

TotalFired ==
    fired["github_collection"] + fired["defillama_collection"]
        + fired["daily_summary"]

\* a trigger of job k fires and the executor accepts the job: the body starts
FireStart(k) ==
    /\ is_running
    /\ k \in 1..Len(jobs)
    /\ TotalFired + nmanual < MaxFirings
    /\ ~Refuses(Cardinality(Instances(jobs[k].id)), jobs[k])
    /\ fired' = [fired EXCEPT ![jobs[k].id] = @ + 1]
    /\ started' = [started EXCEPT ![jobs[k].id] = @ + 1]
    /\ bodies' = Append(bodies, [job |-> jobs[k].id, origin |-> "trigger"])
    /\ UNCHANGED <<is_running, jobs, nsetup, ncalls, lastcall, nmanual, dropped, caught,
                   escaped>>
    /\ UNCHANGED <<storeVars, runVars, funVars>>

\* a trigger of job k fires while max_instances invocations of the job are
\* executing: the executor refuses the job and the run time is skipped
FireDrop(k) ==
    /\ is_running
    /\ k \in 1..Len(jobs)
    /\ TotalFired + nmanual < MaxFirings
    /\ Refuses(Cardinality(Instances(jobs[k].id)), jobs[k])
    /\ fired' = [fired EXCEPT ![jobs[k].id] = @ + 1]
    /\ dropped' = [dropped EXCEPT ![jobs[k].id] = @ + 1]
    /\ UNCHANGED <<is_running, jobs, nsetup, ncalls, lastcall, nmanual, bodies, started,
                   caught, escaped>>
    /\ UNCHANGED <<storeVars, runVars, funVars>>

\* save_projects_from_collector as one step: the loop over the batch
RECURSIVE SaveLoop(_, _, _, _, _, _)
SaveLoop(rows, committed, batch, source, now, st) ==
    IF batch = <<>> THEN [rows |-> rows, stats |-> st, raised |-> "no"]
    ELSE LET r == save_single_project(rows, committed, Head(batch), source, now + 1)
         IN  IF r.raised = "no"
             THEN SaveLoop(r.rows, committed, Tail(batch), source, now + 1,
                           [st EXCEPT ![r.outcome] = @ + 1])
             ELSE IF BatchCatches(r.raised)
             THEN SaveLoop(r.rows, committed, Tail(batch), source, now + 1,
                           [st EXCEPT !.skipped = @ + 1])
             ELSE [rows |-> committed, stats |-> st, raised |-> r.raised]

\* save_projects_from_collector as one step: loop, then commit; commitOk is
\* whether the database accepts the commit
save_projects_from_collector(committed, batch, source, now, commitOk) ==
    LET l == SaveLoop(committed, committed, batch, source, now, ZeroStats)
    IN  IF l.raised # "no" THEN l
        ELSE IF ~commitOk \/ ~UniqueSlugs(l.rows)
        THEN [rows |-> committed, stats |-> l.stats, raised |-> "OperationalError"]
        ELSE l

\* a handler for one class only
BodyCatchesAttributeErrorOnly(class) == class = "AttributeError"

\* except Exception (lines 106, 129, 165)
BodyCatches(class) == class \in {"AttributeError", "OperationalError"}

\* a run-now that leaves out the second pipeline
AfterManualSkips(j) == [job |-> "run_now", origin |-> "manual"]

\* run_all_collections and run_collections_now: after the GitHub body the
\* DeFiLlama body, after that the statistics of the reply
AfterManual(j) ==
    IF j = "github_collection"
    THEN [job |-> "defillama_collection", origin |-> "manual"]
    ELSE [job |-> "run_now", origin |-> "manual"]

\* the job body at index i ends; class is "no" or what was raised inside its
\* try block
EndBody(i, class) ==
    /\ bodies' = IF bodies[i].origin = "trigger" THEN Remove(bodies, i)
                 ELSE [bodies EXCEPT ![i] = AfterManual(bodies[i].job)]
    /\ caught' = IF class # "no" /\ BodyCatches(class)
                 THEN [caught EXCEPT ![bodies[i].job] = @ + 1] ELSE caught
    /\ escaped' = IF class # "no" /\ ~BodyCatches(class)
                  THEN [escaped EXCEPT ![bodies[i].job] = @ + 1] ELSE escaped

\* what collect() returns and raises inside a job body
JobResultLists ==
    { << Rec(FooBar, 150, 60, 8, TW1, Null, <<>>, <<"low_stars">>) >> }

JobCollectErrors == { [class |-> "HTTPStatusError", msg |-> "403 rate limit"] }

CollectorOf(j) ==
    IF j = "github_collection"
    THEN [name |-> "github_crypto", source |-> "github"]
    ELSE [name |-> "defillama", source |-> "defillama"]

\* run_github_collection from its first await to its end: collector.run()
\* with collect() returning results writes the ledger row; a non-empty list
\* goes to the upsert batch (lines 93-102), whose commit the database accepts
\* or refuses; an empty list is the warning of line 104
GithubBodyCollects(i, results, commitOk) ==
    /\ i \in 1..Len(bodies)
    /\ bodies[i].job = "github_collection"
    /\ ledger' = finally_commit(ledger,
                    ReturnedEntry(NewLogEntry(CollectorOf(bodies[i].job), 0), results),
                    "try")
    /\ IF ReturnedValue(results).success /\ ReturnedValue(results).data # <<>>
       THEN LET r == save_projects_from_collector(store,
                        ReturnedValue(results).data, GITHUB, clock, commitOk)
            IN  /\ store' = r.rows
                /\ clock' = clock + Len(results)
                /\ EndBody(i, r.raised)
       ELSE /\ UNCHANGED <<store, clock>>
            /\ EndBody(i, "no")
    /\ UNCHANGED <<sess, spc, bsource, stats, bno, committed_batches, log, runs,
                   funVars>>
    /\ UNCHANGED <<is_running, jobs, nsetup, ncalls, lastcall, nmanual, fired, started,
                   dropped>>

\* run_defillama_collection from its first await to its end; line 119 calls
\* save_projects_from_defillama, a method ProjectService does not have: the
\* attribute lookup raises AttributeError
DefillamaBodyCollects(i, results) ==
    /\ i \in 1..Len(bodies)
    /\ bodies[i].job = "defillama_collection"
    /\ ledger' = finally_commit(ledger,
                    ReturnedEntry(NewLogEntry(CollectorOf(bodies[i].job), 0), results),
                    "try")
    /\ IF ReturnedValue(results).success /\ ReturnedValue(results).data # <<>>
       THEN EndBody(i, "AttributeError")
       ELSE EndBody(i, "no")
    /\ UNCHANGED <<storeVars, runs, funVars>>
    /\ UNCHANGED <<is_running, jobs, nsetup, ncalls, lastcall, nmanual, fired, started,
                   dropped>>

\* either collection body with collect() raising: run() returns success =
\* false and the body logs the warning of line 104 (127)
BodyCollectFails(i, err) ==
    /\ i \in 1..Len(bodies)
    /\ bodies[i].job \in {"github_collection", "defillama_collection"}
    /\ RunCatches(err.class)
    /\ ledger' = finally_commit(ledger,
                    RaisedEntry(NewLogEntry(CollectorOf(bodies[i].job), 0), err),
                    "except")
    /\ IF RaisedValue(err).success /\ RaisedValue(err).data # <<>>
       THEN EndBody(i, "AttributeError")
       ELSE EndBody(i, "no")
    /\ UNCHANGED <<storeVars, runs, funVars>>
    /\ UNCHANGED <<is_running, jobs, nsetup, ncalls, lastcall, nmanual, fired, started,
                   dropped>>

\* generate_daily_summary: the statistics queries succeed or raise
BodySummary(i, queryOk) ==
    /\ i \in 1..Len(bodies)
    /\ bodies[i].job = "daily_summary"
    /\ EndBody(i, IF queryOk THEN "no" ELSE "OperationalError")
    /\ UNCHANGED <<is_running, jobs, nsetup, ncalls, lastcall, nmanual, fired, started,
                   dropped>>
    /\ UNCHANGED <<storeVars, runVars, funVars>>

\* POST /api/scheduler/run-now up to the first await inside the GitHub body
RunNow ==
    /\ TotalFired + nmanual < MaxFirings
    /\ nmanual' = nmanual + 1
    /\ bodies' = Append(bodies, [job |-> "github_collection",
                                 origin |-> "manual"])
    /\ UNCHANGED <<is_running, jobs, nsetup, ncalls, lastcall, fired, started,
                   dropped, caught, escaped>>
    /\ UNCHANGED <<storeVars, runVars, funVars>>

\* run_collections_now, lines 491-493: get_stats() and the reply
RunNowStats(i) ==
    /\ i \in 1..Len(bodies)
    /\ bodies[i].job = "run_now"
    /\ bodies' = Remove(bodies, i)
    /\ UNCHANGED <<is_running, jobs, nsetup, ncalls, lastcall, nmanual, fired, started,
                   dropped, caught, escaped>>
    /\ UNCHANGED <<storeVars, runVars, funVars>>

SchedNext ==
    \/ Start
    \/ \E forget \in BOOLEAN, S \in SUBSET (1..Len(bodies)) : Stop(S, forget)
    \/ RunNow
    \/ \E i \in 1..Len(bodies) : RunNowStats(i)
    \/ \E k \in 1..Len(jobs) : FireStart(k)
    \/ \E k \in 1..Len(jobs) : FireDrop(k)
    \/ \E i \in 1..Len(bodies), results \in JobResultLists, commitOk \in BOOLEAN :
          GithubBodyCollects(i, results, commitOk)
    \/ \E i \in 1..Len(bodies), results \in JobResultLists :
          DefillamaBodyCollects(i, results)
    \/ \E i \in 1..Len(bodies), err \in JobCollectErrors : BodyCollectFails(i, err)
    \/ \E i \in 1..Len(bodies), queryOk \in BOOLEAN : BodySummary(i, queryOk)

ZeroPerJob == [j \in JobIds |-> 0]

SchedInit ==
    /\ is_running = FALSE
    /\ jobs = <<>>
    /\ nsetup = 0
    /\ ncalls = 0
    /\ lastcall = "none"
    /\ nmanual = 0
    /\ bodies = <<>>
    /\ fired = ZeroPerJob
    /\ started = ZeroPerJob
    /\ dropped = ZeroPerJob
    /\ caught = ZeroPerJob
    /\ escaped = ZeroPerJob

----------------------------------------------------------------------------
(* Collection endpoints *)

\* what collect() does inside a request: it returns a list or raises
CollectOutcomes ==
    {[kind |-> "returned", results |-> r] : r \in {<<>>} \cup JobResultLists}
        \cup {[kind |-> "raised", err |-> e] : e \in JobCollectErrors}

\* collector.run(): the dictionary it returns
run_result(o) ==
    IF o.kind = "returned" THEN ReturnedValue(o.results) ELSE RaisedValue(o.err)

\* collector.run(): the ledger with the row of the run
run_ledger(rows, c, o) ==
    IF o.kind = "returned"
    THEN finally_commit(rows, ReturnedEntry(NewLogEntry(c, 0), o.results), "try")
    ELSE finally_commit(rows, RaisedEntry(NewLogEntry(c, 0), o.err), "except")

\* result["data"] = f"{len(...)} projects" and the return of result: the
\* body of the response
Reply(res, saved, db_stats) ==
    [success |-> res.success,
     error |-> IF "error" \in DOMAIN res THEN res.error ELSE "none",
     projects_found |-> IF "projects_found" \in DOMAIN res
                        THEN <<res.projects_found>> ELSE <<>>,
     data |-> Len(res.data),
     db_stats |-> IF saved THEN <<db_stats>> ELSE <<>>]

\* the GitHub pipeline of an endpoint (main.py lines 110-123 and 196-205) on
\* the state st: the run, then the upsert batch when save_to_db is set and
\* the run gave data; fault is the exception that leaves the pipeline
github_pipeline(st, o, save_to_db, commitOk) ==
    LET res == run_result(o)
        saves == save_to_db /\ res.success /\ res.data # <<>>
        r == save_projects_from_collector(st.store, res.data, GITHUB,
                                          st.clock, commitOk)
    IN  [ledger |-> run_ledger(st.ledger, CollectorOf("github_collection"), o),
         store |-> IF saves THEN r.rows ELSE st.store,
         clock |-> IF saves THEN st.clock + Len(res.data) ELSE st.clock,
         fault |-> IF saves THEN r.raised ELSE "no",
         reply |-> Reply(res, saves, r.stats)]

\* the DeFiLlama pipeline of an endpoint (lines 178-188 and 207-214): line
\* 183 (211) calls save_projects_from_defillama, which ProjectService does
\* not have
defillama_pipeline(st, o, save_to_db) ==
    LET res == run_result(o)
        saves == save_to_db /\ res.success /\ res.data # <<>>
    IN  [ledger |-> run_ledger(st.ledger, CollectorOf("defillama_collection"), o),
         store |-> st.store,
         clock |-> st.clock,
         fault |-> IF saves THEN "AttributeError" ELSE "no",
         reply |-> Reply(res, FALSE, ZeroStats)]

\* what the caller gets: the endpoints have no handler, so an exception
\* leaving the pipeline is the framework's 500 response
Respond(endpoint, fault, body) ==
    IF fault # "no"
    THEN [endpoint |-> endpoint, status |-> 500, fault |-> fault]
    ELSE [endpoint |-> endpoint, status |-> 200, body |-> body]

Now == [ledger |-> ledger, store |-> store, clock |-> clock]

\* POST /api/collect/github
ApiGithub(o, save_to_db, commitOk) ==
    /\ Len(responses) < MaxRuns
    /\ \E g \in {github_pipeline(Now, o, save_to_db, commitOk)} :
           /\ ledger' = g.ledger
           /\ store' = g.store
           /\ clock' = g.clock
           /\ responses' = Append(responses,
                              Respond("collect_github", g.fault, g.reply))
    /\ UNCHANGED <<sess, spc, bsource, stats, bno, committed_batches, log>>
    /\ UNCHANGED <<runs, schedVars, scored, extVars>>

\* POST /api/collect/defillama
ApiDefillama(o, save_to_db) ==
    /\ Len(responses) < MaxRuns
    /\ \E d \in {defillama_pipeline(Now, o, save_to_db)} :
           /\ ledger' = d.ledger
           /\ store' = d.store
           /\ clock' = d.clock
           /\ responses' = Append(responses,
                              Respond("collect_defillama", d.fault, d.reply))
    /\ UNCHANGED <<sess, spc, bsource, stats, bno, committed_batches, log>>
    /\ UNCHANGED <<runs, schedVars, scored, extVars>>

\* POST /api/collect/all: the GitHub pipeline, the DeFiLlama pipeline, then
\* get_stats(); an exception ends the request where it is raised
ApiAll(o1, o2, save_to_db, commitOk, statsOk) ==
    /\ Len(responses) < MaxRuns
    /\ \E g \in {github_pipeline(Now, o1, save_to_db, commitOk)} :
       \E d \in {defillama_pipeline(g, o2, save_to_db)} :
       \E end \in {IF g.fault # "no" THEN g ELSE d} :
           /\ ledger' = end.ledger
           /\ store' = end.store
           /\ clock' = end.clock
           /\ responses' =
                 Append(responses,
                        Respond("collect_all",
                                IF end.fault # "no" THEN end.fault
                                ELSE IF statsOk THEN "no"
                                ELSE "OperationalError",
                                [github |-> g.reply, defillama |-> d.reply]))
    /\ UNCHANGED <<sess, spc, bsource, stats, bno, committed_batches, log>>
    /\ UNCHANGED <<runs, schedVars, scored, extVars>>

ApiNext ==
    \/ \E o \in CollectOutcomes, save_to_db, commitOk \in BOOLEAN :
          ApiGithub(o, save_to_db, commitOk)
    \/ \E o \in CollectOutcomes, save_to_db \in BOOLEAN :
          ApiDefillama(o, save_to_db)
    \/ \E o1, o2 \in CollectOutcomes, save_to_db, commitOk, statsOk \in BOOLEAN :
          ApiAll(o1, o2, save_to_db, commitOk, statsOk)

ApiInit == responses = <<>>

----------------------------------------------------------------------------
(* detect_category on its own *)

DescRollupL1 == <<"R","o","l","l","u","p"," ","L","1">>
DescDexBridge == <<"D","E","X"," ","b","r","i","d","g","e">>
DescOracle == <<"o","r","a","c","l","e">>
DescNftGame == <<"N","F","T"," ","g","a","m","e">>
DescDao == <<"d","a","o">>
DescAnAiBot == <<"a","n"," ","A","I"," ","b","o","t">>
DescAi == <<"A","I">>
NameCli == <<"c","l","i">>
TopicLlm == <<"L","L","M">>

\* the records handed to detect_category: descriptions that match no rule,
\* one rule and two rules, a name and topics that match on their own, and
\* null topics
CategoryInputs ==
    { With(Rec(n, 0, 0, 0, Null, Null, Null, <<>>), 0, d, t) :
        n \in {FooBar, NameCli},
        d \in {Absent, Null, DescRollupL1, DescDexBridge, DescOracle,
               DescNftGame, DescDao, DescAnAiBot, DescAi},
        t \in {<<>>, <<TopicSdk, TopicLlm>>, NullTopics} }

\* one call of detect_category
detect_call(data) ==
    IF category_raises(data)
    THEN [raised |-> "TypeError", value |-> <<>>]
    ELSE [raised |-> "no", value |-> <<detect_category(data)>>]

\* detect_category of the records of CategoryInputs, evaluated once
DetectCalls == [r \in CategoryInputs |-> detect_call(r)]

\* detect_category is called on a record
Detect(data) ==
    /\ Len(detected) < MaxDetections
    /\ detected' = Append(detected, [data |-> data, result |-> DetectCalls[data]])
    /\ UNCHANGED <<storeVars, runVars, schedVars, scored, responses, coll, conc>>

DetectNext == \E data \in CategoryInputs : Detect(data)

DetectInit == detected = <<>>


----------------------------------------------------------------------------
(* GitHubCollector.collect inside BaseCollector.run *)

\* EARLY_STAGE_KEYWORDS, each with the signal it produces
EarlyStageKeywords ==
    << [keyword |-> <<"t","e","s","t","n","e","t">>,
        signal |-> "keyword:testnet"],
       [keyword |-> <<"d","e","v","n","e","t">>,
        signal |-> "keyword:devnet"],
       [keyword |-> <<"a","l","p","h","a">>,
        signal |-> "keyword:alpha"],
       [keyword |-> <<"b","e","t","a">>,
        signal |-> "keyword:beta"],
       [keyword |-> <<"m","v","p">>,
        signal |-> "keyword:mvp"],
       [keyword |-> <<"p","o","c">>,
        signal |-> "keyword:poc"],
       [keyword |-> <<"p","r","o","o","f"," ","o","f"," ","c","o","n","c","e","p","t">>,
        signal |-> "keyword:proof of concept"],
       [keyword |-> <<"c","o","m","i","n","g"," ","s","o","o","n">>,
        signal |-> "keyword:coming soon"],
       [keyword |-> <<"w","i","p">>,
        signal |-> "keyword:wip"],
       [keyword |-> <<"w","o","r","k"," ","i","n"," ","p","r","o","g","r","e","s","s">>,
        signal |-> "keyword:work in progress"],
       [keyword |-> <<"p","r","o","t","o","t","y","p","e">>,
        signal |-> "keyword:prototype"],
       [keyword |-> <<"e","x","p","e","r","i","m","e","n","t","a","l">>,
        signal |-> "keyword:experimental"],
       [keyword |-> <<"e","a","r","l","y">>,
        signal |-> "keyword:early"],
       [keyword |-> <<"p","r","e","-","l","a","u","n","c","h">>,
        signal |-> "keyword:pre-launch"],
       [keyword |-> <<"l","a","u","n","c","h"," ","s","o","o","n">>,
        signal |-> "keyword:launch soon"] >>

\* EXCLUDE_KEYWORDS
ExcludeKeywords ==
    { <<"t","u","t","o","r","i","a","l">>,
      <<"c","o","u","r","s","e">>,
      <<"l","e","a","r","n","i","n","g">>,
      <<"e","x","a","m","p","l","e">>,
      <<"d","e","m","o">>,
      <<"h","o","m","e","w","o","r","k">>,
      <<"a","s","s","i","g","n","m","e","n","t">>,
      <<"b","o","o","t","c","a","m","p">>,
      <<"l","e","s","s","o","n">>,
      <<"e","x","e","r","c","i","s","e">>,
      <<"t","e","s","t">>,
      <<"s","a","m","p","l","e">>,
      <<"t","e","m","p","l","a","t","e">>,
      <<"b","o","i","l","e","r","p","l","a","t","e">>,
      <<"s","t","a","r","t","e","r">> }

HomeA == <<"a",".","i","o">>

\* items of the search API; html_url is the key whose absence makes
\* _process_repository raise KeyError
RepoA == [full_name |-> "a/foo", name |-> FooBar, description |-> DescDex,
          stars |-> 150, forks |-> 12, topics |-> <<TopicSdk>>,
          homepage |-> HomeA, html_url |-> TRUE]
RepoB == [full_name |-> "b/baz", name |-> Baz, description |-> DescRollup,
          stars |-> 15, forks |-> 0, topics |-> <<>>,
          homepage |-> Null, html_url |-> TRUE]
RepoBad == [full_name |-> "c/bad", name |-> NameCli, description |-> DescDao,
            stars |-> 7, forks |-> 0, topics |-> <<>>,
            homepage |-> Null, html_url |-> FALSE]

\* what one call of _search_repositories gives: the items, or an exception
\* (raise_for_status, a transport error)
SearchOutcomes ==
    { [ok |-> FALSE, items |-> <<>>],
      [ok |-> TRUE, items |-> <<RepoA>>],
      [ok |-> TRUE, items |-> <<RepoA, RepoB>>],
      [ok |-> TRUE, items |-> <<RepoBad>>] }

\* the detail calls of one candidate: the commit list and the contributor
\* list (a count, or the call failed), the README (links, or the call failed)
DetailOutcomes ==
    { [commits |-> c, contributors |-> n, readme |-> r] :
        c \in {<<12>>, <<0>>, <<>>}, n \in {<<3>>, <<>>}, r \in {<<TW1, DC1>>, <<>>} }

\* lines 86-91: the first item of each full_name, in order
RECURSIVE Unique(_, _)
Unique(items, seen) ==
    IF items = <<>> THEN <<>>
    ELSE IF Head(items).full_name \in seen THEN Unique(Tail(items), seen)
    ELSE <<Head(items)>> \o Unique(Tail(items), seen \cup {Head(items).full_name})

\* a search that gives up at the first failed query
search_breaks(q, ok) == IF ok THEN q + 1 ELSE MaxQueries + 1

\* lines 71-84: the loop goes on to the next query after a result and after
\* an exception (continue)
search_continues(q, ok) == q + 1

\* _get_commits_count and _get_contributors_count: the count, 0 when the
\* call failed
CountOrZero(c) == IF c = <<>> THEN 0 ELSE c[1]

\* _detect_early_signals for an item without created_at
RECURSIVE KeywordSignals(_, _, _)
KeywordSignals(description, topics, k) ==
    IF k > Len(EarlyStageKeywords) THEN <<>>
    ELSE (IF \/ Contains(description, EarlyStageKeywords[k].keyword)
             \/ \E i \in 1..Len(topics) : topics[i] = EarlyStageKeywords[k].keyword
          THEN <<EarlyStageKeywords[k].signal>> ELSE <<>>)
         \o KeywordSignals(description, topics, k + 1)

detect_early_signals(repo) ==
    KeywordSignals(Lower(OrEmpty(repo.description)),
                   [i \in 1..Len(repo.topics) |-> Lower(repo.topics[i])], 1)
        \o (IF repo.stars < 100 THEN <<"low_stars">> ELSE <<>>)

\* _process_repository: the record of a candidate; the README links are
\* null when that call failed, the website is the homepage
process_repository(repo, d) ==
    With(Rec(repo.name, repo.stars, CountOrZero(d.commits),
             CountOrZero(d.contributors),
             IF d.readme = <<>> THEN Null ELSE d.readme[1],
             IF d.readme = <<>> THEN Null ELSE d.readme[2],
             repo.homepage, detect_early_signals(repo)),
         repo.forks, repo.description, repo.topics)

\* _passes_filter
passes_filter(rec) ==
    /\ \A kw \in ExcludeKeywords :
          /\ ~Contains(Lower(OrEmpty(rec.description)), kw)
          /\ ~Contains(Lower(rec.name), kw)
    /\ rec.github_commits_30d # 0
    /\ Truthy(rec.description)

Idle ==
    [who |-> "none", pc |-> "idle", q |-> 0, fetches |-> <<>>,
     candidates |-> <<>>, k |-> 0, details |-> <<>>, out |-> <<>>,
     result |-> <<>>]

\* run() up to the first query of GitHubCollector.collect
GhStart ==
    /\ coll.pc = "idle"
    /\ coll' = [Idle EXCEPT !.who = "github", !.pc = "search", !.q = 1]
    /\ UNCHANGED <<storeVars, runVars, schedVars, scored, responses, detected, conc>>

\* one iteration of the query loop; after the last one the items are
\* de-duplicated and cut to 50
GhSearch(o) ==
    /\ coll.who = "github"
    /\ coll.pc = "search"
    /\ coll.q <= MaxQueries
    /\ \E q \in {search_continues(coll.q, o.ok)} :
       \E found \in {IF o.ok THEN coll.candidates \o o.items
                     ELSE coll.candidates} :
          coll' = [coll EXCEPT
                      !.q = q,
                      !.fetches = Append(@, o),
                      !.candidates = IF q > MaxQueries
                                     THEN Unique(found, {}) ELSE found,
                      !.pc = IF q > MaxQueries THEN "process" ELSE @,
                      !.k = IF q > MaxQueries THEN 1 ELSE @]
    /\ UNCHANGED <<storeVars, runVars, schedVars, scored, responses, detected, conc>>

\* one iteration of the enrichment loop (lines 97-106): an exception of
\* _process_repository is logged and the candidate is left out
GhProcess(d) ==
    /\ coll.who = "github"
    /\ coll.pc = "process"
    /\ coll.k <= Len(coll.candidates)
    /\ \E repo \in {coll.candidates[coll.k]} :
       \E rec \in {process_repository(repo, d)} :
          coll' = [coll EXCEPT
                      !.k = @ + 1,
                      !.details = Append(@, d),
                      !.out = IF repo.html_url /\ passes_filter(rec)
                              THEN Append(@, rec) ELSE @]
    /\ UNCHANGED <<storeVars, runVars, schedVars, scored, responses, detected, conc>>

\* collect() returns processed; run() fills the ledger row, commits it and
\* returns its dictionary
CollectorReturns ==
    /\ coll.pc = "process"
    /\ coll.k > Len(coll.candidates)
    /\ \E o \in {[kind |-> "returned", results |-> coll.out]} :
          /\ coll' = [coll EXCEPT !.pc = "done", !.result = <<run_result(o)>>]
          /\ ledger' = run_ledger(ledger,
                          [name |-> IF coll.who = "github" THEN "github_crypto"
                                    ELSE "defillama",
                           source |-> coll.who], o)
    /\ UNCHANGED <<storeVars, runs, schedVars, scored, responses, detected, conc>>

----------------------------------------------------------------------------
(* DefiLlamaCollector.collect inside BaseCollector.run *)

EarlyChains ==
    { "Arbitrum", "Optimism", "Base", "zkSync Era", "Linea", "Scroll",
      "Blast", "Manta", "Mode", "Mantle", "Sui", "Aptos", "Sei", "Injective", "Celestia",
      "Starknet", "Polygon zkEVM", "Taiko", "Zora" }

HttpsTwitter == <<"h","t","t","p","s",":","/","/","t","w","i","t","t","e","r",".","c","o","m","/">>
HandleAl == <<"a","l">>

\* entries of the protocol list; listed is the age of listedAt in days, -1
\* for an entry without listedAt
P1 == [name |-> FooBar, slug |-> "foo", tvl |-> 5000, chains |-> <<"Base">>,
       listed |-> -1, twitter |-> HandleAl, description |-> Null, url |-> WEB1]
P2 == [name |-> Baz, slug |-> "baz", tvl |-> 2000, chains |-> <<"Ethereum">>,
       listed |-> 20, twitter |-> Null, description |-> DescDex, url |-> Null]
P3 == [name |-> NameCli, slug |-> "cli", tvl |-> 50000000,
       chains |-> <<"Ethereum">>, listed |-> -1, twitter |-> Null,
       description |-> Null, url |-> Null]
P4 == [name |-> <<>>, slug |-> "", tvl |-> 3000, chains |-> <<"Blast">>,
       listed |-> 100, twitter |-> Null, description |-> Null, url |-> Null]

\* what GET /protocols gives: an exception, a status other than 200, or the
\* list
ProtocolOutcomes ==
    { [kind |-> "raised", items |-> <<>>],
      [kind |-> "status", items |-> <<>>],
      [kind |-> "ok", items |-> <<P1, P2, P3>>],
      [kind |-> "ok", items |-> <<P4, P1>>] }

\* what GET /protocol/{slug} gives: the details, a failure (an exception or
\* a status other than 200), or a body that is no dictionary
ProtocolDetails ==
    { [kind |-> "ok", twitter |-> HandleAl, description |-> DescRollup,
       raises |-> <<TRUE>>],
      [kind |-> "failed", twitter |-> Null, description |-> Null,
       raises |-> <<>>],
      [kind |-> "malformed", twitter |-> Null, description |-> Null,
       raises |-> <<>>] }

\* _fetch_protocols: the list, [] after a status other than 200 and after
\* an exception
fetch_protocols(o) == IF o.kind = "ok" THEN o.items ELSE <<>>

is_early(p) ==
    \/ /\ 1000 < p.tvl /\ p.tvl < 10000000
       /\ \E i \in 1..Len(p.chains) : p.chains[i] \in EarlyChains
    \/ /\ p.listed >= 0 /\ p.listed < 180
       /\ p.tvl > 0

\* list.sort(key=tvl): stable, ascending
RECURSIVE InsertByTvl(_, _)
InsertByTvl(sorted, p) ==
    IF sorted = <<>> THEN <<p>>
    ELSE IF p.tvl < Head(sorted).tvl THEN <<p>> \o sorted
    ELSE <<Head(sorted)>> \o InsertByTvl(Tail(sorted), p)

RECURSIVE SortByTvl(_)
SortByTvl(ps) ==
    IF ps = <<>> THEN <<>>
    ELSE InsertByTvl(SortByTvl(SubSeq(ps, 1, Len(ps) - 1)), ps[Len(ps)])

\* _filter_early_stage
filter_early_stage(ps) == SortByTvl(SelectSeq(ps, is_early))

\* DefiLlamaCollector._detect_early_signals; the texts that follow the
\* colon in the signals are left out
protocol_signals(p, d) ==
    (IF p.tvl < 100000 THEN <<"very_low_tvl">>
     ELSE IF p.tvl < 1000000 THEN <<"low_tvl">> ELSE <<>>)
    \o (IF \E i \in 1..Len(p.chains) : p.chains[i] \in EarlyChains
        THEN <<"new_chains">> ELSE <<>>)
    \o (IF p.listed >= 0 /\ p.listed < 30 THEN <<"very_new">>
        ELSE IF p.listed >= 0 /\ p.listed < 90 THEN <<"new">> ELSE <<>>)
    \o (IF d.raises # <<>> THEN <<"raised">> ELSE <<>>)
    \o (IF \E i \in 1..Len(d.raises) : d.raises[i]
        THEN <<"recent_funding">> ELSE <<>>)

\* a or b
Or(a, b) == IF Truthy(a) THEN a ELSE b

\* _enrich_protocol for a protocol with a name: a failed detail call
\* leaves details empty
enrich_protocol(p, d) ==
    With(Rec(p.name, AbsentN, AbsentN, AbsentN,
             IF Truthy(Or(p.twitter, d.twitter))
             THEN HttpsTwitter \o Or(p.twitter, d.twitter) ELSE Null,
             Absent, p.url, protocol_signals(p, d)),
         AbsentN, Or(p.description, d.description), <<>>)

\* run() up to the protocol-list call of DefiLlamaCollector.collect
DlStart ==
    /\ coll.pc = "idle"
    /\ coll' = [Idle EXCEPT !.who = "defillama", !.pc = "search", !.q = 1]
    /\ UNCHANGED <<storeVars, runVars, schedVars, scored, responses, detected, conc>>

\* lines 29-36: the protocol list is fetched and filtered, the first 50 are
\* kept
DlFetch(o) ==
    /\ coll.who = "defillama"
    /\ coll.pc = "search"
    /\ coll' = [coll EXCEPT
                  !.q = 2,
                  !.fetches = <<o>>,
                  !.candidates = filter_early_stage(fetch_protocols(o)),
                  !.pc = "process",
                  !.k = 1]
    /\ UNCHANGED <<storeVars, runVars, schedVars, scored, responses, detected, conc>>

\* one iteration of the enrichment loop (lines 39-45): a protocol without a
\* name gives None and is left out; details.get on a body that is no
\* dictionary raises, the exception is logged and the protocol is left out
DlEnrich(d) ==
    /\ coll.who = "defillama"
    /\ coll.pc = "process"
    /\ coll.k <= Len(coll.candidates)
    /\ \E p \in {coll.candidates[coll.k]} :
          coll' = [coll EXCEPT
                      !.k = @ + 1,
                      !.details = Append(@, d),
                      !.out = IF p.name # <<>> /\ d.kind # "malformed"
                              THEN Append(@, enrich_protocol(p, d)) ELSE @]
    /\ UNCHANGED <<storeVars, runVars, schedVars, scored, responses, detected, conc>>

CollectNext ==
    \/ GhStart
    \/ \E o \in SearchOutcomes : GhSearch(o)
    \/ \E d \in DetailOutcomes : GhProcess(d)
    \/ DlStart
    \/ \E o \in ProtocolOutcomes : DlFetch(o)
    \/ \E d \in ProtocolDetails : DlEnrich(d)
    \/ CollectorReturns

CollectInit == coll = Idle

----------------------------------------------------------------------------
(* Two batches at once: save_projects_from_collector in two sessions *)

\* the two coroutines that run save_projects_from_collector side by side
Sessions == {1, 2}

\* the records of their batches: two slugs, none of them raising
ConcRecords ==
    {r \in Records : r.name \in {FooBar, FooDash, Baz} /\ r.github_stars # NoneN}

\* the batches: one record or two
ConcBatches ==
    {<<a>> : a \in ConcRecords} \cup {<<a, b>> : a, b \in ConcRecords}

\* a session that has not been opened
Closed ==
    [pc |-> "idle", batch |-> <<>>, pos |-> 0, rows |-> <<>>,
     added |-> {}, touched |-> {}, stats |-> ZeroStats]

HasSlug(rows, slug) == \E k \in 1..Len(rows) : rows[k].slug = slug

RowOfSlug(rows, slug) == rows[CHOOSE k \in 1..Len(rows) : rows[k].slug = slug]

\* what a SELECT of session c sees when the database shows it the rows the
\* other session has committed meanwhile: its own pending rows and changes,
\* and the committed state of every other row
Refreshed(c) ==
    LET mine == c.added \cup c.touched
        own == [i \in 1..Len(c.rows) |->
                  IF c.rows[i].slug \notin mine /\ HasSlug(store, c.rows[i].slug)
                  THEN RowOfSlug(store, c.rows[i].slug) ELSE c.rows[i]]
        fresh == SelectSeq(store, LAMBDA row : ~HasSlug(c.rows, row.slug))
    IN  own \o fresh

\* the INSERTs and UPDATEs the flush of session c emits, applied to the
\* committed rows; the database numbers the new rows
Written(c) ==
    LET upd == [i \in 1..Len(store) |->
                  IF store[i].slug \in c.touched
                  THEN [RowOfSlug(c.rows, store[i].slug) EXCEPT !.id = store[i].id]
                  ELSE store[i]]
        new == SelectSeq(c.rows, LAMBDA row : row.slug \in c.added)
    IN  upd \o [k \in 1..Len(new) |-> [new[k] EXCEPT !.id = Len(store) + k]]

\* Project.slug is unique: an INSERT of a slug that a committed row holds
\* raises IntegrityError
ViolatesUnique(c) == \E k \in 1..Len(store) : store[k].slug \in c.added

\* async with async_session_maker() as session (line 108)
ConcOpen(s, batch) ==
    /\ conc[s].pc = "idle"
    /\ conc' = [conc EXCEPT ![s] = [Closed EXCEPT !.pc = "batch",
                                                  !.batch = batch,
                                                  !.rows = store]]
    /\ UNCHANGED <<storeVars, runVars, schedVars, scored, responses, detected,
                   coll>>

\* one iteration of the loop (lines 109-116) in session s; the SELECT reads
\* the snapshot of the session's transaction or, when refresh, the rows
\* committed since
ConcProcess(s, refresh) ==
    LET c == conc[s] IN
    /\ c.pc = "batch"
    /\ c.pos < Len(c.batch)
    /\ LET data == c.batch[c.pos + 1]
           view == IF refresh THEN Refreshed(c) ELSE c.rows
           now == conc[1].pos + conc[2].pos + 1
           r == save_single_project(view, store, data, GITHUB, now)
           slug == SlugOf(data, GITHUB)
           key == IF r.raised = "no" THEN r.outcome
                  ELSE IF BatchCatches(r.raised) THEN "skipped" ELSE "aborted"
       IN  conc' = [conc EXCEPT ![s] =
                      IF key = "aborted"
                      THEN [c EXCEPT !.pc = "aborted"]
                      ELSE [c EXCEPT
                              !.pos = @ + 1,
                              !.rows = r.rows,
                              !.added = IF key = "new" THEN @ \cup {slug} ELSE @,
                              !.touched = IF r.outcome = "updated"
                                          THEN @ \cup {slug} ELSE @,
                              !.stats = [@ EXCEPT ![key] = @ + 1]]]
    /\ UNCHANGED <<storeVars, runVars, schedVars, scored, responses, detected,
                   coll>>

\* session.commit() (line 118) in session s: the flush and the COMMIT, or
\* IntegrityError, which leaves the method and rolls the transaction back
ConcCommit(s) ==
    LET c == conc[s] IN
    /\ c.pc = "batch"
    /\ c.pos = Len(c.batch)
    /\ store' = commit(store, Written(c), ~ViolatesUnique(c))
    /\ conc' = [conc EXCEPT ![s].pc =
                   IF ViolatesUnique(c) THEN "aborted" ELSE "returned"]
    /\ UNCHANGED <<sess, spc, bsource, stats, bno, committed_batches, log,
                   clock>>
    /\ UNCHANGED <<runVars, schedVars, scored, responses, detected, coll>>

ConcNext ==
    \/ \E s \in Sessions, batch \in ConcBatches : ConcOpen(s, batch)
    \/ \E s \in Sessions, refresh \in BOOLEAN : ConcProcess(s, refresh)
    \/ \E s \in Sessions : ConcCommit(s)

ConcInit == conc = [s \in Sessions |-> Closed]

Init ==
    /\ StoreInit /\ RunInit /\ SchedInit /\ ScoreInit /\ ApiInit
    /\ DetectInit /\ CollectInit /\ ConcInit

Spec == Init /\ [][Next]_vars

SpecRun == Init /\ [][RunNext]_vars

SpecApi == Init /\ [][ApiNext]_vars

SpecDetect == Init /\ [][DetectNext]_vars

SpecCollect == Init /\ [][CollectNext]_vars

SpecConc == Init /\ [][ConcNext]_vars

SpecScore == Init /\ [][ScoreNext]_vars

SpecFaulty == Init /\ [][NextFaulty]_vars

SpecSched == Init /\ [][SchedNext]_vars

\* the ledger rows written by invocation i
RowsOfRun(i) == {k \in 1..Len(ledger) : ledger[k].run = i}

DoneRuns == {i \in 1..Len(runs) : runs[i].pc = "done"}

\* C5: every completed invocation of run() has exactly one ledger row, an
\* invocation still executing has none, whether collect() returned or
\* raised; the ledger has as many rows as there are completed invocations.
C5_OneRowPerRun ==
    /\ \A i \in 1..Len(runs) :
          Cardinality(RowsOfRun(i)) = IF i \in DoneRuns THEN 1 ELSE 0
    /\ Len(ledger) = Cardinality(DoneRuns)

\* two completed invocations, one whose collect() returned and one whose
\* collect() raised
C5_Witness ==
    /\ Len(ledger) = 2
    /\ \E i, j \in DoneRuns :
          /\ runs[i].collected.kind = "returned"
          /\ runs[j].collected.kind = "raised"

\* C6: no invocation of run() raises to its caller; when collect() raised,
\* run() returns success = false, the exception's message as error and an
\* empty data list, and the ledger row of the invocation has success = false
\* and that message.
C6_RunNeverRaises ==
    \A i \in 1..Len(runs) :
        /\ runs[i].outcome.kind # "raise"
        /\ (i \in DoneRuns /\ runs[i].collected.kind = "raised") =>
              /\ runs[i].outcome =
                    [kind |-> "return",
                     value |-> [success |-> FALSE,
                                error |-> runs[i].collected.err.msg,
                                data |-> <<>>]]
              /\ \A k \in RowsOfRun(i) :
                    /\ ledger[k].success = FALSE
                    /\ ledger[k].error_message = runs[i].collected.err.msg

\* a completed invocation whose collect() raised something other than a
\* transport error, with its ledger row
C6_Witness ==
    \E i \in DoneRuns :
        /\ runs[i].collected.kind = "raised"
        /\ runs[i].collected.err.class = "KeyError"
        /\ RowsOfRun(i) # {}

----------------------------------------------------------------------------
(* Scheduler properties *)

JobIdsOf(js) == {js[i].id : i \in 1..Len(js)}

\* the executing invocations of job j that a trigger started
Running(j) ==
    {i \in 1..Len(bodies) : bodies[i].job = j /\ bodies[i].origin = "trigger"}

StartCalled == ncalls' = ncalls + 1 /\ lastcall' = "start"

StopCalled == ncalls' = ncalls + 1 /\ lastcall' = "stop"

\* a trigger of job j fires in this step
Fires(j) == fired'[j] = fired[j] + 1

\* C7: start() and stop() form an idempotent two-state machine.  start() in
\* Stopped sets the running flag and registers the three jobs; start() in
\* Running changes neither the flag nor the jobs and does not configure them
\* again; stop() in Running clears the flag; stop() in Stopped changes
\* nothing.  In every state the flag is the state the last call asked for,
\* and no job id is registered twice.
C7_StartStopIdempotent ==
    /\ [](/\ is_running = (lastcall = "start")
          /\ \A i, k \in 1..Len(jobs) : jobs[i].id = jobs[k].id => i = k
          /\ is_running => JobIdsOf(jobs) = JobIds)
    /\ [][/\ (StartCalled /\ is_running) =>
                 UNCHANGED <<is_running, jobs, nsetup, bodies>>
          /\ (StartCalled /\ ~is_running) =>
                 /\ is_running'
                 /\ nsetup' = nsetup + 1
                 /\ JobIdsOf(jobs') = JobIds
                 /\ Len(jobs') = 3
          /\ (StopCalled /\ is_running) => ~is_running'
          /\ (StopCalled /\ ~is_running) =>
                 UNCHANGED <<is_running, jobs, nsetup, bodies>>]_vars

\* a start() that found the scheduler Running (or a stop() that found it
\* Stopped) has been made, and the scheduler is Running, configured once
C7_Witness ==
    /\ is_running
    /\ lastcall = "start"
    /\ ncalls >= 2
    /\ nsetup = 1
    /\ JobIdsOf(jobs) = JobIds

\* C8: while the scheduler is Running, each job has at most one executing
\* invocation that a trigger started, and a firing of a job whose previous
\* invocation has not finished starts no invocation.
C8_NoOverlap ==
    /\ [](is_running => \A j \in JobIds : Cardinality(Running(j)) <= 1)
    /\ [][\A j \in JobIds :
            (Fires(j) /\ Running(j) # {}) => bodies' = bodies]_vars

\* a firing was rejected while the job's invocation is still executing
C8_Witness ==
    /\ is_running
    /\ \E j \in JobIds : dropped[j] >= 1 /\ Cardinality(Running(j)) = 1

\* C9: a firing rejected because the job is still running is dropped, not
\* queued.  It counts as a firing and not as an invocation; an invocation
\* that a trigger started appears only in the step of a firing of that job
\* that found no invocation of it executing, so a rejected firing is never
\* executed later; once a firing was rejected the job has fewer invocations
\* than firings.
C9_DroppedNotQueued ==
    /\ [](\A j \in JobIds :
            /\ fired[j] = started[j] + dropped[j]
            /\ dropped[j] > 0 => started[j] < fired[j])
    /\ [][/\ \A j \in JobIds :
                (Fires(j) /\ Running(j) # {}) =>
                    /\ started'[j] = started[j]
                    /\ dropped'[j] = dropped[j] + 1
          /\ \A i \in 1..Len(bodies') :
                (bodies'[i].origin = "trigger" /\ i > Len(bodies)) =>
                    /\ Fires(bodies'[i].job)
                    /\ Running(bodies'[i].job) = {}
                    /\ Len(bodies') = Len(bodies) + 1
          /\ \A j \in JobIds : started'[j] # started[j] => Fires(j)]_vars

\* a job fired twice, the second firing was rejected, the invocation has
\* finished since and nothing of the job is executing
C9_Witness ==
    \E j \in JobIds :
        /\ fired[j] = 2
        /\ started[j] = 1
        /\ dropped[j] = 1
        /\ Running(j) = {}
        /\ is_running

\* some job body ends in this step
BodyEnds ==
    \E i \in 1..Len(bodies) :
        /\ bodies[i].job \in JobIds
        /\ \/ bodies' = Remove(bodies, i)
           \/ bodies' = [bodies EXCEPT ![i] = AfterManual(bodies[i].job)]

\* C10: no exception leaves a job body.  The step in which a body ends,
\* with or without a failure inside it, leaves the running flag and the jobs
\* as they were, and a registered job of a Running scheduler that has no
\* invocation executing starts its body at its next firing.
C10_JobBodyNeverRaises ==
    /\ [](\A j \in JobIds : escaped[j] = 0)
    /\ [](\A k \in 1..Len(jobs) :
            (/\ is_running
             /\ Running(jobs[k].id) = {}
             /\ TotalFired + nmanual < MaxFirings) => ENABLED FireStart(k))
    /\ [][(\E j \in JobIds : caught'[j] # caught[j]) =>
            /\ BodyEnds
            /\ UNCHANGED <<is_running, jobs>>]_vars

\* a job body failed, its handler caught the failure, and a later firing of
\* the same job has started the body again
C10_Witness ==
    \E j \in JobIds :
        /\ caught[j] >= 1
        /\ started[j] >= 2
        /\ Running(j) # {}
        /\ is_running

----------------------------------------------------------------------------
(* Collection jobs and the store *)

\* a collection job body ends its collector run in this step: the run's row
\* is the last of the ledger
RunEnds == Len(ledger') = Len(ledger) + 1

LastRow == ledger'[Len(ledger')]

\* the body that ends handled a failure of its upsert batch's commit
CommitRefused ==
    /\ LastRow.source = "github"
    /\ caught'["github_collection"] # caught["github_collection"]

\* the projects of the collected records are in the store, written in this
\* step
Persisted ==
    /\ store' # store
    /\ \A r \in JobResultLists :
          \A n \in 1..Len(r) :
             \E i \in 1..Len(store') :
                /\ store'[i].name = r[n].name
                /\ store'[i].updated_at > clock

\* C11: a collection job invocation whose run() returned success with a
\* non-empty list performs the upsert batch and the records are in the store
\* afterwards (a commit the database refused aside); one whose run() failed
\* or returned an empty list leaves the store as it was.
C11_AsStated ==
    [][RunEnds =>
          IF LastRow.success /\ LastRow.projects_found > 0
          THEN CommitRefused \/ Persisted
          ELSE store' = store]_vars

----------------------------------------------------------------------------
(* The run-now path *)

\* the run-now requests that are at stage j
ManualAt(bs, j) ==
    Cardinality({i \in 1..Len(bs) : bs[i].origin = "manual" /\ bs[i].job = j})

RowsOfSource(src) ==
    Cardinality({i \in 1..Len(ledger) : ledger[i].source = src})

NoManual == \A i \in 1..Len(bodies) : bodies[i].origin # "manual"

\* C12: run-now runs its pipelines one after the other.  A request is at one
\* stage at a time; the DeFiLlama pipeline of a request starts only in the
\* step that ends its GitHub pipeline (with its ledger row, success or
\* failure), the statistics and the reply only in the step that ends its
\* DeFiLlama pipeline; when no trigger has fired, the ledger never holds more
\* DeFiLlama rows than GitHub rows, and once every request has returned it
\* holds one row of each pipeline per request.
C12_RunNowSequential ==
    /\ [](/\ ManualAt(bodies, "github_collection")
               + ManualAt(bodies, "defillama_collection")
               + ManualAt(bodies, "run_now") <= nmanual
          /\ TotalFired = 0 =>
                /\ RowsOfSource("defillama") <= RowsOfSource("github")
                /\ RowsOfSource("github") <= nmanual
                /\ NoManual =>
                      /\ RowsOfSource("github") = nmanual
                      /\ RowsOfSource("defillama") = nmanual)
    /\ [][/\ ManualAt(bodies', "defillama_collection")
                > ManualAt(bodies, "defillama_collection") =>
                /\ ManualAt(bodies', "github_collection")
                      = ManualAt(bodies, "github_collection") - 1
                /\ RunEnds
                /\ LastRow.source = "github"
          /\ ManualAt(bodies', "run_now") > ManualAt(bodies, "run_now") =>
                /\ ManualAt(bodies', "defillama_collection")
                      = ManualAt(bodies, "defillama_collection") - 1
                /\ RunEnds
                /\ LastRow.source = "defillama"
          /\ ManualAt(bodies', "github_collection")
                > ManualAt(bodies, "github_collection") =>
                nmanual' = nmanual + 1]_vars

\* a run-now request has returned whose GitHub pipeline failed and whose
\* DeFiLlama pipeline ran after it
C12_Witness ==
    /\ nmanual = 1
    /\ TotalFired = 0
    /\ bodies = <<>>
    /\ Len(ledger) = 2
    /\ ledger[1].source = "github"
    /\ ~ledger[1].success
    /\ ledger[2].source = "defillama"

----------------------------------------------------------------------------
(* The batch as the transaction *)

\* C13: a batch is all or nothing.  The store changes only in the step of a
\* commit that succeeds, which is the one commit of its batch and puts every
\* row of the session, with every creation and merge of the batch, into the
\* store; records are processed only before that commit; a crash or a
\* failing commit leaves the store, and with it every batch committed
\* before, as it was.
C13_BatchAllOrNothing ==
    [][/\ store' # store =>
             /\ spc = "batch"
             /\ spc' = "returned"
             /\ store' = sess
             /\ bno \notin committed_batches
             /\ committed_batches' = committed_batches \cup {bno}
             /\ \A i \in BatchEntries :
                   log[i].outcome \in {"new", "updated"} =>
                      SlugCount(store', SlugOf(log[i].data, log[i].source)) = 1
       /\ committed_batches' # committed_batches => spc' = "returned"
       /\ Processed => (spc = "batch" /\ bno \notin committed_batches)
       /\ spc' \in {"crashed", "refused", "aborted"} => store' = store]_vars

\* a batch was committed, a later batch created a Project in its session and
\* then the process died: the store holds the first batch and nothing of the
\* second
C13_Witness ==
    /\ spc = "crashed"
    /\ committed_batches = {1}
    /\ bno = 2
    /\ Len(store) >= 1
    /\ \E i \in BatchEntries :
          /\ log[i].outcome = "new"
          /\ SlugCount(store, SlugOf(log[i].data, log[i].source)) = 0
    /\ \E i \in 1..Len(log) :
          /\ log[i].batch = 1
          /\ log[i].outcome = "new"
          /\ SlugCount(store, SlugOf(log[i].data, log[i].source)) = 1

----------------------------------------------------------------------------
(* Score and confidence *)

\* every row of rows has its score in [0, 10] and its confidence in [0, 1],
\* both in tenths
InRange(rows) ==
    \A i \in 1..Len(rows) :
        /\ rows[i].score >= 0 /\ rows[i].score <= 100
        /\ rows[i].confidence >= 0 /\ rows[i].confidence <= 10

----------------------------------------------------------------------------
(* The identity scenario *)

FooBarSlug(source) == <<"f","o","o","-","b","a","r","-">> \o source

MetricFields ==
    {"github_stars", "github_forks", "github_commits_30d", "github_contributors"}

\* the record of the step just taken is named "Foo Bar" or "foo-bar" and
\* its processing did not raise
ScenarioStep ==
    /\ Processed
    /\ log'[Len(log')].data.name \in {FooBar, FooDash}
    /\ ~Malformed(log'[Len(log')].data)

\* the slugs generate_slug gives the names of the scenario
ScenarioSlugs ==
    \A source \in Sources :
        /\ generate_slug(FooBar, source) = FooBarSlug(source)
        /\ generate_slug(FooDash, source) = FooBarSlug(source)
        /\ generate_slug(Baz, source) = <<"b","a","z","-">> \o source

\* C15: "Foo Bar" and "foo-bar" of one source get the slug foo-bar-<source>
\* (lower-cased, each run of other characters one separator, separators
\* trimmed, the source appended).  The first such record of a source creates
\* the one Project of that slug, with status new; each later one merges into
\* it: still one Project, its status as it was, and every metric the record
\* carries stored with the record's value.
C15_IdentityScenario ==
    [][/\ ScenarioSlugs
       /\ ScenarioStep =>
             LET e == log'[Len(log')]
                 old == RowsWithSlug(sess, FooBarSlug(e.source))
                 new == RowsWithSlug(sess', FooBarSlug(e.source))
             IN  /\ Cardinality(new) = 1
                 /\ old = {} =>
                       /\ e.outcome = "new"
                       /\ \A k \in new : sess'[k].status = "new"
                 /\ old # {} =>
                       /\ e.outcome = "updated"
                       /\ new = old
                       /\ \A k \in new :
                             /\ sess'[k].status = sess[k].status
                             /\ sess'[k].status = "new"
                             /\ \A f \in MetricFields :
                                   e.data[f] # AbsentN =>
                                       sess'[k][f] = e.data[f]]_vars

\* "Foo Bar" then "foo-bar" of GitHub were upserted and committed: one
\* Project, status new, named by the first record, with the stars, commits
\* and contributors of the second
C15_Witness ==
    /\ spc = "returned"
    /\ Len(log) = 2
    /\ log[1].data.name = FooBar /\ log[1].outcome = "new"
    /\ log[2].data.name = FooDash /\ log[2].outcome = "updated"
    /\ log[1].source = GITHUB /\ log[2].source = GITHUB
    /\ log[1].data.github_stars = 150
    /\ Len(store) = 1
    /\ store[1].slug = FooBarSlug(GITHUB)
    /\ store[1].status = "new"
    /\ store[1].name = FooBar
    /\ store[1].github_stars = 15
    /\ store[1].github_commits_30d = 11
    /\ store[1].github_contributors = 3

----------------------------------------------------------------------------
(* The result of run() *)

\* C16: every completed invocation of run() returned a dictionary with the
\* keys success and projects_found, with data when collect() returned and
\* with error when collect() raised.
C16_AsStated ==
    \A i \in DoneRuns :
        /\ runs[i].outcome.kind = "return"
        /\ {"success", "projects_found"} \subseteq DOMAIN runs[i].outcome.value
        /\ runs[i].collected.kind = "returned" =>
              "data" \in DOMAIN runs[i].outcome.value
        /\ runs[i].collected.kind = "raised" =>
              "error" \in DOMAIN runs[i].outcome.value

----------------------------------------------------------------------------
(* Failures of the collection endpoints *)

\* C17: every collection request ends with a result, not with an exception:
\* the response of a one-source endpoint carries a success flag, that of the
\* all-sources endpoint one per source.
C17_AsStated ==
    \A k \in 1..Len(responses) :
        /\ responses[k].status = 200
        /\ responses[k].endpoint \in {"collect_github", "collect_defillama"} =>
              responses[k].body.success \in BOOLEAN
        /\ responses[k].endpoint = "collect_all" =>
              /\ responses[k].body.github.success \in BOOLEAN
              /\ responses[k].body.defillama.success \in BOOLEAN

----------------------------------------------------------------------------
(* Run statistics in the ledger *)

\* the request that ends in this step is a GitHub collection whose upsert
\* batch was committed
GithubSaved ==
    /\ Len(responses') = Len(responses) + 1
    /\ responses'[Len(responses')].endpoint = "collect_github"
    /\ responses'[Len(responses')].status = 200
    /\ responses'[Len(responses')].body.db_stats # <<>>

\* C18: after a collector invocation followed by its upsert batch, the
\* ledger row of the run holds the number of records collected and the
\* batch's counts of new and updated Projects.
C18_AsStated ==
    [][GithubSaved =>
          LET body == responses'[Len(responses')].body
          IN  /\ RunEnds
              /\ LastRow.projects_found = body.data
              /\ LastRow.projects_new = body.db_stats[1].new
              /\ LastRow.projects_updated = body.db_stats[1].updated]_vars

----------------------------------------------------------------------------
(* Merging into an existing Project *)

\* the record of the step just taken
Observed == log'[Len(log')].data

FrameFields ==
    {"id", "slug", "discovered_at", "status", "source", "name",
     "description", "category", "confidence"}

\* the frame fields of the merged row are as they were
FrameKept(i) == \A f \in FrameFields : sess'[i][f] = sess[i][f]

\* the handle changes only together with the Twitter link, and is then the
\* handle of the new link
HandleFollowsLink(i) ==
    sess'[i].twitter_handle # sess[i].twitter_handle =>
        /\ sess'[i].twitter_url # sess[i].twitter_url
        /\ sess'[i].twitter_handle =
              extract_twitter_handle(sess'[i].twitter_url)

\* C20 as stated: a merge leaves slug, discovered_at, status, source, name,
\* description, category and confidence unchanged, and a social link changes
\* only if it was null.
C20_AsStated ==
    [][ \A i \in 1..Len(sess) :
          MergedInto(i) =>
            /\ FrameKept(i)
            /\ HandleFollowsLink(i)
            /\ \A f \in LinkFields :
                  sess'[i][f] # sess[i][f] => sess[i][f] = Null ]_vars

\* C20: a merge leaves id, slug, discovered_at, status, source, name,
\* description, category and confidence unchanged; a social link changes
\* only if it was null or empty, and the Twitter handle only with the
\* Twitter link.  Everything else a row holds is a provenance metric, the
\* score or updated_at.
C20_MergeFrame ==
    [][ \A i \in 1..Len(sess) :
          MergedInto(i) =>
            /\ FrameKept(i)
            /\ HandleFollowsLink(i)
            /\ \A f \in LinkFields :
                  sess'[i][f] # sess[i][f] => ~Truthy(sess[i][f])
            /\ DOMAIN sess'[i] = DOMAIN sess[i]
            /\ DOMAIN sess[i] =
                  FrameFields \cup MetricFields \cup LinkFields
                      \cup {"twitter_handle", "score", "updated_at"} ]_vars

\* a Project created by one record and merged with a record of another
\* name, description and category: the committed row keeps the name, the
\* description, the category and the creation time of the first record and
\* has a later updated_at
C20_Witness ==
    /\ spc = "returned"
    /\ Len(log) = 2
    /\ Len(store) = 1
    /\ log[1].outcome = "new"
    /\ log[2].outcome = "updated"
    /\ log[2].data.name # log[1].data.name
    /\ store[1].name = log[1].data.name
    /\ Truthy(log[2].data.description)
    /\ log[2].data.description # log[1].data.description
    /\ store[1].description = log[1].data.description
    /\ detect_category(log[2].data) # detect_category(log[1].data)
    /\ store[1].category = detect_category(log[1].data)
    /\ store[1].slug = SlugOf(log[2].data, log[2].source)
    /\ store[1].status = "new"
    /\ store[1].confidence = 3
    /\ store[1].discovered_at < store[1].updated_at

----------------------------------------------------------------------------
(* The scoring formula *)

\* the points of the highest tier whose boundary v exceeds; tiers are pairs
\* <<boundary, tenths of a point>>
Tier(v, tiers) ==
    LET above == {t \in tiers : v > t[1]}
    IN  IF above = {} THEN 0
        ELSE (CHOOSE t \in above : \A u \in above : u[1] <= t[1])[2]

StarTiers == {<<100, 20>>, <<50, 15>>, <<20, 10>>, <<10, 5>>}
CommitTiers == {<<50, 15>>, <<20, 10>>, <<10, 5>>}
ContributorTiers == {<<5, 10>>, <<2, 5>>}

\* the formula, in tenths of a point, for a record whose counts are numbers
\* or absent
Formula(data) ==
    LET sum == 50 + Tier(GetN(data.github_stars, 0), StarTiers)
                  + Tier(GetN(data.github_commits_30d, 0), CommitTiers)
                  + Tier(GetN(data.github_contributors, 0), ContributorTiers)
                  + (IF /\ data.early_signals # Absent
                        /\ \E i \in 1..Len(data.early_signals) :
                              data.early_signals[i]
                                  \in {"keyword:testnet", "keyword:devnet"}
                     THEN 5 ELSE 0)
                  + (IF data.twitter_url \in {Absent, Null, <<>>} THEN 0 ELSE 3)
                  + (IF data.discord_url \in {Absent, Null, <<>>} THEN 0 ELSE 2)
    IN  IF sum > 100 THEN 100 ELSE sum

\* C21: whenever the scorer returns, its value is min(10.0, 5.0 + star
\* bonus + commit bonus + contributor bonus + signal bonus + social bonus),
\* with the tiers 2.0/1.5/1.0/0.5 above 100/50/20/10 stars, 1.5/1.0/0.5
\* above 50/20/10 commits, 1.0/0.5 above 5/2 contributors, 0.5 for a testnet
\* or devnet signal, 0.3 for a Twitter link and 0.2 for a Discord link; a
\* Project created from a record has the value of the formula as its score,
\* and stars 150, commits 60, contributors 8 with a Twitter link give 9.8.
C21_ScoreFormula ==
    /\ \A k \in 1..Len(scored) :
          scored[k].result.raised = "no" =>
              scored[k].result.value[1] = Formula(scored[k].data)
    /\ \A k \in 1..Len(log) :
          log[k].outcome = "new" =>
              \A i \in 1..Len(sess) :
                  (sess[i].discovered_at = sess[i].updated_at
                      /\ sess[i].slug = SlugOf(log[k].data, log[k].source)) =>
                          sess[i].score = Formula(log[k].data)
    /\ \A i \in 1..Len(sess) :
          (/\ sess[i].discovered_at = sess[i].updated_at
           /\ sess[i].github_stars = 150
           /\ sess[i].github_commits_30d = 60
           /\ sess[i].github_contributors = 8
           /\ Truthy(sess[i].twitter_url)
           /\ ~Truthy(sess[i].discord_url)) => sess[i].score = 98

\* the record with stars 150, commits 60, contributors 8 and a Twitter link
\* created a Project, committed with the score 9.8
C21_Witness ==
    /\ spc = "returned"
    /\ \E i \in 1..Len(store) :
          /\ store[i].github_stars = 150
          /\ store[i].github_commits_30d = 60
          /\ store[i].github_contributors = 8
          /\ Truthy(store[i].twitter_url)
          /\ store[i].discovered_at = store[i].updated_at
          /\ store[i].score = 98

----------------------------------------------------------------------------
(* Category detection *)

Categories ==
    {"l1", "l2", "defi", "infrastructure", "tooling", "gaming", "nft",
     "social", "ai", "other"}

\* the order in which the rules are to be tried
RuleOrder ==
    <<"l2", "l1", "defi", "infrastructure", "tooling", "gaming", "nft",
      "social", "ai">>

\* some keyword of the rule of category c occurs in the lower-cased text of
\* the record
Matches(data, c) ==
    \E k \in 1..Len(CategoryRules) :
        /\ CategoryRules[k].category = c
        /\ \E kw \in CategoryRules[k].keywords : Contains(AllText(data), kw)

\* the category the record is to get: that of the earliest rule in
\* RuleOrder that matches, Other when none does
ExpectedCategory(data) ==
    IF \A j \in 1..Len(RuleOrder) : ~Matches(data, RuleOrder[j]) THEN "other"
    ELSE RuleOrder[CHOOSE j \in 1..Len(RuleOrder) :
                      /\ Matches(data, RuleOrder[j])
                      /\ \A i \in 1..(j - 1) : ~Matches(data, RuleOrder[i])]

\* evaluated once for the records of CategoryInputs that have topics
Expected ==
    [r \in {d \in CategoryInputs : d.github_topics # NullTopics} |->
        ExpectedCategory(r)]

\* a record with this description, the name "Foo Bar" and no topics
Described(d) == With(Rec(FooBar, 0, 0, 0, Null, Null, Null, <<>>), 0, d, <<>>)

----------------------------------------------------------------------------
(* Failures inside a collection *)

\* the items of the searches that succeeded, in the order of the searches
RECURSIVE Gathered(_)
Gathered(fetches) ==
    IF fetches = <<>> THEN <<>>
    ELSE (IF Head(fetches).ok THEN Head(fetches).items ELSE <<>>)
         \o Gathered(Tail(fetches))

PastFetches == coll.pc \in {"process", "done"}

\* every detail call of candidate k succeeded
DetailsOk(k) ==
    /\ coll.details[k].commits # <<>>
    /\ coll.details[k].contributors # <<>>
    /\ coll.details[k].readme # <<>>

Names(recs) == {recs[i].name : i \in 1..Len(recs)}

\* C23: a failed fetch does not abort the collection.  The GitHub collector
\* issues every query whatever the earlier ones gave, and its candidates are
\* the items of the queries that succeeded (each repository once); the
\* DeFiLlama collector goes on with an empty protocol list.  collect()
\* returns: run() reports success=true with the records of the candidates,
\* among them every candidate whose detail calls succeeded with a commit
\* count above 0, and the ledger row of the run says the same.
C23_FetchFailureContained ==
    /\ (coll.who = "github" /\ PastFetches) =>
          /\ Len(coll.fetches) = MaxQueries
          /\ coll.candidates = Unique(Gathered(coll.fetches), {})
    /\ (coll.who = "defillama" /\ PastFetches) =>
          /\ Len(coll.fetches) = 1
          /\ coll.fetches[1].kind # "ok" => coll.candidates = <<>>
          /\ coll.fetches[1].kind = "ok" =>
                \A i \in 1..Len(coll.fetches[1].items) :
                    is_early(coll.fetches[1].items[i]) =>
                        \E j \in 1..Len(coll.candidates) :
                            coll.candidates[j] = coll.fetches[1].items[i]
    /\ coll.pc = "done" =>
          /\ coll.result[1].success
          /\ coll.result[1].data = coll.out
          /\ ledger # <<>>
          /\ ledger[Len(ledger)].success
          /\ ledger[Len(ledger)].projects_found = Len(coll.out)
          /\ coll.who = "github" =>
                \A k \in 1..Len(coll.candidates) :
                    (/\ DetailsOk(k)
                     /\ coll.details[k].commits # <<0>>
                     /\ coll.candidates[k].html_url) =>
                        coll.candidates[k].name \in Names(coll.out)

\* the first query of a GitHub collection failed, the second gave two
\* repositories; both are in the result of the run, which reports success
C23_Witness ==
    /\ coll.who = "github"
    /\ coll.pc = "done"
    /\ Len(coll.fetches) >= 2
    /\ ~coll.fetches[1].ok
    /\ coll.fetches[2] = [ok |-> TRUE, items |-> <<RepoA, RepoB>>]
    /\ Names(coll.out) = {RepoA.name, RepoB.name}
    /\ coll.result[1].success
    /\ coll.result[1].projects_found = 2

\* C24 as stated: a candidate whose enrichment failed is in the collector's
\* output all the same, and so is every other candidate whose enrichment
\* succeeded.
C24_AsStated ==
    \A k \in 1..Len(coll.details) :
        (/\ coll.candidates[k].name # <<>>
         /\ coll.details[k] \in DetailOutcomes => coll.details[k].commits # <<0>>) =>
              coll.candidates[k].name \in Names(coll.out)

\* C25 as stated: when the DeFiLlama protocol-list fetch fails, the
\* invocation produces no record, run() returns success=false and the
\* ledger row of the invocation has success=false and an error text.
C25_AsStated ==
    (/\ coll.who = "defillama"
     /\ coll.pc = "done"
     /\ coll.fetches[1].kind # "ok") =>
        /\ coll.out = <<>>
        /\ ~coll.result[1].success
        /\ ~ledger[Len(ledger)].success
        /\ ledger[Len(ledger)].error_message # "null"

----------------------------------------------------------------------------
(* Manual invocations and the instance limit *)

\* the executing invocations of the body of job j, whoever started them
Executing(j) == {i \in 1..Len(bodies) : bodies[i].job = j}

\* C26: the body of the GitHub collection job is never executed by two
\* invocations at once, the manual run-now path included: run-now does not
\* execute run_github_collection while an invocation a trigger started, or
\* another run-now request, is still executing it.
C26_AsStated == Cardinality(Executing("github_collection")) <= 1

----------------------------------------------------------------------------
(* Skipped records *)

\* the step just taken processed a record and counted it as skipped
Skipped ==
    /\ Processed
    /\ spc = "batch"
    /\ log'[Len(log')].outcome = "skipped"

\* C27: a record counted as skipped leaves the rows of the session, which
\* the commit of the batch writes, as they were: it changes no field of an
\* existing Project and adds no Project.
C27_AsStated == [][Skipped => sess' = sess]_vars

----------------------------------------------------------------------------
(* The stored score *)

\* the log entries whose effect the rows of Current hold: the records that
\* were created or merged in a committed batch or in the open one
Live ==
    {k \in 1..Len(log) :
        /\ log[k].outcome \in {"new", "updated"}
        /\ \/ log[k].batch \in committed_batches
           \/ spc = "batch" /\ log[k].batch = bno}

\* the latest of them for a slug, 0 when there is none
LatestScored(slug) ==
    LET K == {k \in Live : SlugTable[log[k].data][log[k].source] = slug}
    IN  IF K = {} THEN 0 ELSE CHOOSE k \in K : \A m \in K : m <= k

\* what the scorer reads, taken from a stored row
StoredState(row, signals) ==
    [github_stars |-> row.github_stars,
     github_commits_30d |-> row.github_commits_30d,
     github_contributors |-> row.github_contributors,
     twitter_url |-> row.twitter_url,
     discord_url |-> row.discord_url,
     early_signals |-> signals]

\* C28 as stated: the stored score of every Project is the scorer's value
\* for its stored counts and links, with the early signals of the latest
\* observation.
C28_AsStated ==
    \A i \in 1..Len(Current) :
        LET k == LatestScored(Current[i].slug)
        IN  k # 0 =>
              Current[i].score =
                 calculate_initial_score(
                     StoredState(Current[i], log[k].data.early_signals))

\* C28: the stored score of every Project is the scorer's value for the
\* latest record that was created or merged under its slug, taken alone: a
\* count the record lacks scores as 0 and a link it lacks earns nothing,
\* whatever the row holds.
C28_ScoreOfLatestRecord ==
    \A i \in 1..Len(Current) :
        LET k == LatestScored(Current[i].slug)
        IN  /\ k # 0
            /\ Current[i].score = calculate_initial_score(log[k].data)

\* a committed Project with a star count above the first tier and a Twitter
\* link, whose latest record carried neither
C28_Witness ==
    /\ spc = "returned"
    /\ \E i \in 1..Len(store) :
          LET k == LatestScored(store[i].slug)
          IN  /\ k # 0
              /\ log[k].outcome = "updated"
              /\ log[k].data.github_stars = AbsentN
              /\ ~Truthy(log[k].data.twitter_url)
              /\ store[i].github_stars > 10
              /\ Truthy(store[i].twitter_url)
              /\ store[i].score # calculate_initial_score(
                                     StoredState(store[i],
                                                 log[k].data.early_signals))

----------------------------------------------------------------------------
(* Batches that collide on a new slug *)

Ended(s) == conc[s].pc \in {"returned", "aborted"}

\* the slugs both sessions created a Project for
CreatedByBoth == conc[1].added \cap conc[2].added

\* C29: when two batches that ran side by side have both created a Project
\* for one slug that was not stored, both batches return, the store holds
\* exactly one Project for that slug, and every record of either batch has
\* its Project in the store.
C29_AsStated ==
    (Ended(1) /\ Ended(2) /\ CreatedByBoth # {}) =>
        /\ \A s \in Sessions : conc[s].pc = "returned"
        /\ \A slug \in CreatedByBoth : SlugCount(store, slug) = 1
        /\ \A s \in Sessions : \A k \in 1..Len(conc[s].batch) :
              SlugCount(store, SlugOf(conc[s].batch[k], GITHUB)) = 1

----------------------------------------------------------------------------
(* The counts of a batch *)

Outcomes == {"new", "updated", "skipped"}

\* the records of the running (or last) batch that were counted under o
Counted(o) == Cardinality({i \in BatchEntries : log[i].outcome = o})

\* C30: the counts of a batch add up to the number of records processed, and
\* to the length of the batch when it returns; every record is counted under
\* exactly one of new, updated and skipped; the records are processed one
\* after the other, each in the state the records before it left: a record
\* counted as new found no row with its slug there, a record counted as
\* updated found one, and the entries of the records before it stay.
C30_CountsAddUp ==
    /\ [](spc \in {"batch", "returned"} =>
            /\ \A i \in BatchEntries : log[i].outcome \in Outcomes
            /\ \A o \in Outcomes : stats[o] = Counted(o)
            /\ stats.new + stats.updated + stats.skipped
                  = Cardinality(BatchEntries))
    /\ [][Processed =>
            /\ SubSeq(log', 1, Len(log)) = log
            /\ log'[Len(log')].batch = bno
            /\ \E o \in Outcomes :
                  /\ log'[Len(log')].outcome = o
                  /\ stats' = [stats EXCEPT ![o] = @ + 1]
            /\ log'[Len(log')].outcome = "new" =>
                  SlugCount(sess, SlugOf(Observed, bsource)) = 0
            /\ log'[Len(log')].outcome = "updated" =>
                  SlugCount(sess, SlugOf(Observed, bsource)) = 1]_vars

\* a returned batch of three records, one counted under each outcome
C30_Witness ==
    /\ spc = "returned"
    /\ Cardinality(BatchEntries) = 3
    /\ \A o \in Outcomes : Counted(o) = 1 /\ stats[o] = 1

====
